---- MODULE Spec2Model ----
(***************************************************************************)
(* Verification model of the tennis-court-scheduler prototypes:            *)
(*   - the three normalizeEntries implementations (Fact Mutator),          *)
(*   - useSuggestedSession of the distance-based scheduler and             *)
(*     useGameSummaries / bestGame of the match planner (Aggregation),     *)
(*   - setAvailability, loadAvailability and the Supabase load/save pair,  *)
(*   - the SQLite-backed replace of the vite plugin and the server,        *)
(*   - the file-backed replace of the first vite configuration.            *)
(* Each prototype is run by a specification of its own; the variables of   *)
(* the other prototypes stay at their idle values.                         *)
(***************************************************************************)
EXTENDS Integers, Sequences, FiniteSets, Bags, TLC

\* ---------------------------------------------------------------- bounds
\* longest raw list handed to normalizeEntries
MaxLen == 3
\* largest playerId / gameId that occurs in a raw list
MaxId == 2
\* the "Too many entries" cap of the SQLite backends (10000 in the source),
\* scaled down so that lists of MaxLen entries reach it
EntryCap == 2
\* most entries the scheduler's availability list holds
MaxSchedEntries == 3
\* most courts the scheduler holds (the five default courts and added ones)
MaxCourts == 6
\* most entries the planner's in-memory list holds
MaxEntries == 3

VARIABLES
    rawInput,       \* normalizeEntries: the value handed to it
    appResult,      \* result of the client's normalizeEntries
    pluginResult,   \* result of the vite plugin's normalizeEntries
    serverResult,   \* result of the standalone server's normalizeEntries
    variant,        \* which prototype the specification runs ("none": normalizeEntries)
    courts,         \* scheduler: useCourts state
    schedEntries,   \* scheduler: useAvailability state
    maxDistanceKm,  \* scheduler: distance filter, in tenths of a unit
    skillLevel,     \* planner: selected skill level
    entries,        \* planner: in-memory availability entries
    shown,          \* planner: what the last render displayed (summaries, best game)
    isLoading,      \* planner: useState isLoading
    isSaving,       \* planner: useState isSaving
    hasLoadedAvailability, \* planner: the ref hasLoadedAvailability.current
    status,         \* planner: statusType and statusMessage
    localStorage,   \* the browser's item per skill level
    store,          \* Supabase table availability_entries: the rows per skill level
    supabaseConfigured, \* isSupabaseConfigured()
    loads,          \* loadAvailability calls that await their response
    timer,          \* the pending 300 ms auto-save timeout, if any
    saves,          \* saveAvailabilityToSupabase calls that await a response
    database,       \* SQLite file: committed rows and the open transaction
    request,        \* SQLite backend: the PUT request being handled
    lastRead,       \* SQLite backend: what the last GET returned
    edited,         \* setAvailability: the last call and the entries before it
    file,           \* file backend: what data/availability.json holds
    history         \* client: the record of what its saves did, when one is kept

normVars == <<rawInput, appResult, pluginResult, serverResult>>
schedVars == <<courts, schedEntries, maxDistanceKm>>
plannerVars == <<skillLevel, entries, shown>>
clientVars ==
    <<isLoading, isSaving, hasLoadedAvailability, status, localStorage, store,
      supabaseConfigured, loads, timer, saves>>
sqliteVars == <<database, request, lastRead>>
editVars == <<edited>>
fileVars == <<file>>
historyVars == <<history>>

vars ==
    <<normVars, variant, schedVars, plannerVars, clientVars, sqliteVars, editVars,
      fileVars, historyVars>>

\* ------------------------------------------------------------ sequences
SeqsUpTo(S, n) == UNION {[1..k -> S] : k \in 0..n}

Range(s) == {s[i] : i \in 1..Len(s)}

NoDuplicates(s) == \A i, j \in 1..Len(s) : s[i] = s[j] => i = j

\* ------------------------------------------------- raw JavaScript values
\* A raw id field as JSON.parse / a caller can deliver it:
\*   int n, the numeric string "n", the boolean true, a missing field
\*   (undefined) and a non-integer number (n + 0.5).
IntVal(n) == [t |-> "int", v |-> n]
StrVal(n) == [t |-> "str", v |-> n]
BoolVal(b) == [t |-> "bool", v |-> b]
Undefined == [t |-> "undef", v |-> 0]
FloatVal(n) == [t |-> "float", v |-> n]

GoodIds == {IntVal(n) : n \in 1..MaxId}
CoercibleIds == {StrVal(1), BoolVal(1)}
BadIds == {IntVal(0), IntVal(-1), Undefined, FloatVal(1)}

\* a list item that is no object (null, a number, a string)
NonObject == [obj |-> FALSE, playerId |-> Undefined, gameId |-> Undefined]
RawObject(p, g) == [obj |-> TRUE, playerId |-> p, gameId |-> g]

RawItems ==
    {NonObject}
    \cup {RawObject(p, g) : p \in GoodIds, g \in GoodIds}
    \cup {RawObject(x, IntVal(1)) : x \in CoercibleIds \cup BadIds}
    \cup {RawObject(IntVal(1), x) : x \in CoercibleIds \cup BadIds}

\* a value that is no array at all (an object, undefined)
NotAnArray == [array |-> FALSE, items |-> <<>>]
RawArray(items) == [array |-> TRUE, items |-> items]

RawInputs == {NotAnArray} \cup {RawArray(s) : s \in SeqsUpTo(RawItems, MaxLen)}

\* Number(x): the numeric string and the boolean coerce to a number,
\* undefined gives NaN, a non-integer number stays non-integer.
ToNumber(x) ==
    CASE x.t = "int" -> [nan |-> FALSE, int |-> TRUE, v |-> x.v]
      [] x.t = "str" -> [nan |-> FALSE, int |-> TRUE, v |-> x.v]
      [] x.t = "bool" -> [nan |-> FALSE, int |-> TRUE, v |-> x.v]
      [] x.t = "float" -> [nan |-> FALSE, int |-> FALSE, v |-> x.v]
      [] OTHER -> [nan |-> TRUE, int |-> FALSE, v |-> 0]

\* Number.isInteger(x) on the raw value: no coercion, only a number passes
RawIsInteger(x) == x.t = "int"

\* Number.isInteger(Number(x))
NumberIsInteger(n) == ~n.nan /\ n.int

Entry(p, g) == [playerId |-> p, gameId |-> g]

\* a Map.set that appends also when the key is present already
MapSetAppendsAlways(deduped, e) == Append(deduped, e)

\* Map.set(`${playerId}:${gameId}`, entry): a new key is appended in insertion
\* order, an existing key keeps its place (its value is replaced by an equal one)
MapSet(deduped, e) ==
    IF \E i \in 1..Len(deduped) : deduped[i] = e THEN deduped ELSE Append(deduped, e)

RECURSIVE DedupLoop(_, _)
DedupLoop(items, deduped) ==
    IF items = <<>> THEN deduped
    ELSE DedupLoop(Tail(items), MapSet(deduped, Head(items)))

\* the body of the for-loop of the coercing normalizers: the entry an item
\* contributes, or <<>> when the item is skipped
CoercedEntry(item) ==
    IF ~item.obj THEN <<>>
    ELSE LET playerId == ToNumber(item.playerId)
             gameId == ToNumber(item.gameId)
         IN IF ~NumberIsInteger(playerId) \/ ~NumberIsInteger(gameId) THEN <<>>
            ELSE IF playerId.v <= 0 \/ gameId.v <= 0 THEN <<>>
            ELSE <<Entry(playerId.v, gameId.v)>>

\* a loop that ends at the first item it cannot use
RECURSIVE CoercedLoopStopsAtInvalid(_, _)
CoercedLoopStopsAtInvalid(items, deduped) ==
    IF items = <<>> THEN deduped
    ELSE LET e == CoercedEntry(Head(items))
         IN IF e = <<>> THEN deduped
            ELSE CoercedLoopStopsAtInvalid(Tail(items), MapSet(deduped, e[1]))

RECURSIVE CoercedLoop(_, _)
CoercedLoop(items, deduped) ==
    IF items = <<>> THEN deduped
    ELSE LET e == CoercedEntry(Head(items))
         IN CoercedLoop(Tail(items),
                        IF e = <<>> THEN deduped ELSE MapSet(deduped, e[1]))

Ok(es) == [status |-> "ok", entries |-> es, message |-> ""]
Threw(message) == [status |-> "error", entries |-> <<>>, message |-> message]
Pending == [status |-> "pending", entries |-> <<>>, message |-> ""]

\* the client's normalizeEntries: a non-array gives [], never throws, no cap
NormalizeEntriesApp(value) ==
    IF ~value.array THEN <<>> ELSE CoercedLoop(value.items, <<>>)

\* the standalone server's normalizeEntries: throws on a non-array, coerces
\* with Number(), checks the cap on the deduplicated map
NormalizeEntriesServer(value) ==
    IF ~value.array THEN Threw("entries must be an array")
    ELSE LET deduped == CoercedLoop(value.items, <<>>)
         IN IF Len(deduped) > EntryCap
            THEN Threw("Too many entries in one request")
            ELSE Ok(deduped)

\* the vite plugin's map callback: Number.isInteger on the raw fields
PluginEntry(item) ==
    IF ~item.obj THEN <<>>
    ELSE IF ~RawIsInteger(item.playerId) \/ ~RawIsInteger(item.gameId) THEN <<>>
    ELSE LET playerId == ToNumber(item.playerId).v
             gameId == ToNumber(item.gameId).v
         IN IF playerId <= 0 \/ gameId <= 0 THEN <<>>
            ELSE <<Entry(playerId, gameId)>>

RECURSIVE PluginMapFilter(_)
PluginMapFilter(items) ==
    IF items = <<>> THEN <<>>
    ELSE PluginEntry(Head(items)) \o PluginMapFilter(Tail(items))

\* the vite plugin's normalizeEntries: throws on a non-array, checks the cap
\* on the valid entries before they are deduplicated
NormalizeEntriesPlugin(input) ==
    IF ~input.array THEN Threw("entries must be an array")
    ELSE LET normalized == PluginMapFilter(input.items)
         IN IF Len(normalized) > EntryCap
            THEN Threw("Too many entries in one request")
            ELSE Ok(DedupLoop(normalized, <<>>))

\* ------------------------------------------- scheduler (distance-based)
DAYS == <<"Mon", "Tue", "Wed", "Thu", "Fri", "Sat", "Sun">>
SLOTS == <<"morning", "afternoon", "evening">>

\* the roster: players are identified by their id, names are one per id
DEFAULT_PLAYERS == [i \in 1..19 |-> i]

Court(id, distanceKm) == [id |-> id, distanceKm |-> distanceKm]

\* distances in tenths: 0.8, 2.0, 0.5, 1.2, 1.0
DEFAULT_COURTS ==
    <<Court(1, 8), Court(2, 20), Court(3, 5), Court(4, 12), Court(5, 10)>>

SchedEntry(p, c, d, s) == [playerId |-> p, courtId |-> c, day |-> d, slot |-> s]

\* entries.filter(e => e.courtId === court.id && e.day === day && e.slot === slot)
EntriesAt(es, courtId, day, slot) ==
    SelectSeq(es, LAMBDA e : e.courtId = courtId /\ e.day = day /\ e.slot = slot)

\* a deduplication that only merges neighbouring repeats
RECURSIVE UniqueIdsAdjacent(_, _)
UniqueIdsAdjacent(ids, seen) ==
    IF ids = <<>> THEN seen
    ELSE UniqueIdsAdjacent(Tail(ids),
                           IF seen # <<>> /\ seen[Len(seen)] = Head(ids)
                           THEN seen ELSE Append(seen, Head(ids)))

\* Array.from(new Set(ids)): first occurrences, in order
RECURSIVE UniqueIds(_, _)
UniqueIds(ids, seen) ==
    IF ids = <<>> THEN seen
    ELSE UniqueIds(Tail(ids),
                   IF \E i \in 1..Len(seen) : seen[i] = Head(ids)
                   THEN seen ELSE Append(seen, Head(ids)))

PlayerIdsOf(es) == [i \in 1..Len(es) |-> es[i].playerId]

\* ids.map(id => players.find(p => p.id === id)).filter(Boolean)
FindPlayers(ids, roster) ==
    SelectSeq(ids, LAMBDA id : \E i \in 1..Len(roster) : roster[i] = id)

\* a scan that lets a later session win on an equal count
ReplacesBestOnTie(best, uniquePlayerIds) ==
    best = <<>> \/ Len(uniquePlayerIds) >= Len(best[1].playerIds)

\* if (!best || uniquePlayerIds.length > best.playerIds.length)
ReplacesBest(best, uniquePlayerIds) ==
    best = <<>> \/ Len(uniquePlayerIds) > Len(best[1].playerIds)

\* the body of the innermost loop, for one (court, day, slot); best is <<>>
\* (null) or <<record>>
ScanSession(court, day, slot, es, best) ==
    LET availableHere == EntriesAt(es, court.id, day, slot)
        uniquePlayerIds == UniqueIds(PlayerIdsOf(availableHere), <<>>)
    IN IF availableHere = <<>> THEN best
       ELSE IF ReplacesBest(best, uniquePlayerIds)
       THEN <<[court |-> court, day |-> day, slot |-> slot, playerIds |-> uniquePlayerIds]>>
       ELSE best

\* for (const slot of ["morning", "afternoon", "evening"])
\* (each loop looks at best first, so that it is evaluated step by step)
RECURSIVE ScanSlots(_, _, _, _, _)
ScanSlots(court, day, slots, es, best) ==
    IF best = <<>> /\ slots = <<>> THEN <<>>
    ELSE IF slots = <<>> THEN best
    ELSE ScanSlots(court, day, Tail(slots), es, ScanSession(court, day, Head(slots), es, best))

\* for (const day of DAYS)
RECURSIVE ScanDays(_, _, _, _)
ScanDays(court, days, es, best) ==
    IF best = <<>> /\ days = <<>> THEN <<>>
    ELSE IF days = <<>> THEN best
    ELSE ScanDays(court, Tail(days), es, ScanSlots(court, Head(days), SLOTS, es, best))

\* for (const court of eligibleCourts)
RECURSIVE ScanCourts(_, _, _)
ScanCourts(eligible, es, best) ==
    IF best = <<>> /\ eligible = <<>> THEN <<>>
    ELSE IF eligible = <<>> THEN best
    ELSE ScanCourts(Tail(eligible), es, ScanDays(Head(eligible), DAYS, es, best))

\* a filter that keeps every court, whatever its distance
NoDistanceFilter(court, maxKm) == TRUE

\* c.distanceKm <= maxDistanceKm
WithinDistance(court, maxKm) == court.distanceKm <= maxKm

FilterCourts(cs, maxKm) == SelectSeq(cs, LAMBDA c : WithinDistance(c, maxKm))

\* useSuggestedSession: <<>> for null, else <<the suggestion>>
UseSuggestedSession(roster, cs, es, maxKm) ==
    IF roster = <<>> \/ cs = <<>> THEN <<>>
    ELSE LET eligibleCourts == FilterCourts(cs, maxKm)
         IN IF eligibleCourts = <<>> THEN <<>>
            ELSE LET best == ScanCourts(eligibleCourts, es, <<>>)
                 IN IF best = <<>> THEN <<>>
                    ELSE <<[court |-> best[1].court, day |-> best[1].day,
                            slot |-> best[1].slot,
                            playerNames |-> FindPlayers(best[1].playerIds, roster)]>>

\* -------------------------------------------------------- match planner
SkillLevels == {"3.5", "3.0"}

PLAYERS_BY_SKILL_LEVEL ==
    [l \in SkillLevels |-> IF l = "3.5" THEN [i \in 1..19 |-> i] ELSE [i \in 1..13 |-> i]]

\* the ids of the games, in array order
GAMES_BY_SKILL_LEVEL ==
    [l \in SkillLevels |-> IF l = "3.5" THEN <<2, 3, 4, 1>> ELSE <<1, 2, 3, 4>>]

\* entries.filter(entry => entry.gameId === game.id).map(entry => entry.playerId)
PlayerIdsForGame(es, gameId) ==
    PlayerIdsOf(SelectSeq(es, LAMBDA e : e.gameId = gameId))

\* a summary that lists every id with a fact, in the roster or not
SummaryWithGhosts(roster, game, es) ==
    LET uniqueIds == UniqueIds(PlayerIdsForGame(es, game), <<>>)
    IN [game |-> game, availablePlayers |-> uniqueIds, count |-> Len(uniqueIds)]

\* the callback of games.map in useGameSummaries
GameSummary(roster, game, es) ==
    LET availablePlayerIds == PlayerIdsForGame(es, game)
        uniqueIds == UniqueIds(availablePlayerIds, <<>>)
        availablePlayers == FindPlayers(uniqueIds, roster)
    IN [game |-> game, availablePlayers |-> availablePlayers,
        count |-> Len(availablePlayers)]

\* a games.map that leaves out the games no entry refers to
UseGameSummariesOfReferenced(roster, catalog, es) ==
    LET referenced == SelectSeq(catalog, LAMBDA game : \E i \in 1..Len(es) : es[i].gameId = game)
    IN [i \in 1..Len(referenced) |-> GameSummary(roster, referenced[i], es)]

UseGameSummaries(roster, catalog, es) ==
    [i \in 1..Len(catalog) |-> GameSummary(roster, catalog[i], es)]

\* the comparator (a, b) => b.count - a.count, asked whether b must go before a
SortsBefore(a, b) == b.count - a.count > 0

\* Array.prototype.sort is stable: x is put behind every element it must not
\* precede
RECURSIVE InsertSorted(_, _)
InsertSorted(sorted, x) ==
    IF sorted = <<>> THEN <<x>>
    ELSE IF SortsBefore(Head(sorted), x) THEN <<x>> \o sorted
    ELSE <<Head(sorted)>> \o InsertSorted(Tail(sorted), x)

RECURSIVE SortByCount(_, _)
SortByCount(summaries, sorted) ==
    IF summaries = <<>> THEN sorted
    ELSE SortByCount(Tail(summaries), InsertSorted(sorted, Head(summaries)))

\* a bestGame that returns sorted[0] without looking at its count
BestGameOfAnyCount(summaries) ==
    LET sorted == SortByCount(summaries, <<>>)
    IN IF sorted # <<>> THEN <<sorted[1]>> ELSE <<>>

\* bestGame: sorted[0]?.count > 0 ? sorted[0] : null
BestGame(summaries) ==
    LET sorted == SortByCount(summaries, <<>>)
    IN IF sorted # <<>> /\ sorted[1].count > 0 THEN <<sorted[1]>> ELSE <<>>

\* --------------------------------------------- the planner's client state
\* statusType and statusMessage; the message is named by its opening words
Status(type, message) == [type |-> type, message |-> message]
NoStatus == Status("info", "none")

\* localStorage items: no item, an item JSON.parse rejects, an item that parses
NoItem == [present |-> FALSE, parses |-> FALSE, value |-> NotAnArray]
MalformedItem == [present |-> TRUE, parses |-> FALSE, value |-> NotAnArray]
StoredItem(value) == [present |-> TRUE, parses |-> TRUE, value |-> value]

\* JSON.parse(JSON.stringify(entries)): an array of objects with number fields
ToJson(es) ==
    RawArray([i \in 1..Len(es) |-> RawObject(IntVal(es[i].playerId), IntVal(es[i].gameId))])

\* a read of the local cache that hands the parsed item on as it is
ReadEntriesUnnormalized(ls, level) ==
    LET raw == ls[level]
    IN IF ~raw.present \/ ~raw.parses \/ ~raw.value.array THEN <<>>
       ELSE [i \in 1..Len(raw.value.items) |->
                Entry(raw.value.items[i].playerId.v, raw.value.items[i].gameId.v)]

ReadEntriesFromLocalStorage(ls, level) ==
    LET raw == ls[level]
    IN IF ~raw.present THEN <<>>
       ELSE IF ~raw.parses THEN <<>>
       ELSE NormalizeEntriesApp(raw.value)

WriteEntriesToLocalStorage(ls, level, es) == [ls EXCEPT ![level] = StoredItem(ToJson(es))]

\* order=player_id.asc,game_id.asc
RowBefore(a, b) ==
    \/ a.playerId < b.playerId
    \/ a.playerId = b.playerId /\ a.gameId <= b.gameId

RECURSIVE OrderedRows(_)
OrderedRows(rows) ==
    IF rows = {} THEN <<>>
    ELSE LET first == CHOOSE r \in rows : \A q \in rows : RowBefore(r, q)
         IN <<first>> \o OrderedRows(rows \ {first})

\* loadAvailabilityFromSupabase on a 2xx response: the rows of the level,
\* mapped to { playerId, gameId }
LoadAvailabilityFromSupabase(st, level) == ToJson(OrderedRows(st[level]))

\* previousEntries.findIndex(...): the first index of the pair, 0 for -1
FindIndex(es, playerId, gameId) ==
    IF \E i \in 1..Len(es) : es[i] = Entry(playerId, gameId)
    THEN CHOOSE i \in 1..Len(es) :
            /\ es[i] = Entry(playerId, gameId)
            /\ \A j \in 1..(i - 1) : es[j] # Entry(playerId, gameId)
    ELSE 0

\* a splice without a delete count: it removes everything from index on
SpliceToEnd(es, index) == SubSeq(es, 1, index - 1)

\* nextEntries.splice(index, 1)
Splice(es, index) == SubSeq(es, 1, index - 1) \o SubSeq(es, index + 1, Len(es))

\* an updater that flips the pair's presence whatever the desired presence is
SetAvailabilityToggles(previousEntries, playerId, gameId, available) ==
    LET index == FindIndex(previousEntries, playerId, gameId)
    IN IF index = 0 THEN Append(previousEntries, Entry(playerId, gameId))
       ELSE Splice(previousEntries, index)

\* the updater setAvailability hands to setEntries
SetAvailability(previousEntries, playerId, gameId, available) ==
    LET index == FindIndex(previousEntries, playerId, gameId)
    IN IF available /\ index = 0 THEN Append(previousEntries, Entry(playerId, gameId))
       ELSE IF ~available /\ index > 0 THEN Splice(previousEntries, index)
       ELSE previousEntries

\* the error both Supabase calls throw when the build has no configuration
MissingConfiguration == "Supabase environment variables are missing"

\* a loadAvailability call in flight and its AbortController
LoadTask(level, aborted) == [skillLevel |-> level, aborted |-> aborted]

\* calls in flight form a bag: the order they were started in has no effect
CountIn(ts, task) == IF task \in DOMAIN ts THEN ts[task] ELSE 0
AddTask(ts, task) == ts (+) SetToBag({task})
RemoveTask(ts, task) == ts (-) SetToBag({task})

\* the cleanup of the load effect: controller.abort()
AbortAll(ts) ==
    [task \in {LoadTask(t.skillLevel, TRUE) : t \in DOMAIN ts} |->
        CountIn(ts, task) + CountIn(ts, LoadTask(task.skillLevel, FALSE))]

\* a saveAvailabilityToSupabase call: pc is the request it awaits, and once
\* it has settled "resolved" or the message of the error it threw;
\* cancelled the flag of the effect run that armed its timer, origin the
\* caller ("auto" for the timer, "now" for saveNow), cause what made the
\* caller run when a record is kept: "now" the button, and for a timer the
\* render that armed it ("load" after a successful load, "cache" after a
\* failed one, "edit")
SaveTask(level, es, pc, origin) ==
    [skillLevel |-> level, entries |-> es, pc |-> pc, cancelled |-> FALSE, origin |-> origin,
     cause |-> "none"]

\* the cleanup of the auto-save effect: cancelled = true, clearTimeout
Cancelled(task) == IF task.origin = "auto" THEN [task EXCEPT !.cancelled = TRUE] ELSE task

CancelAuto(ts) ==
    [task \in {Cancelled(t) : t \in DOMAIN ts} |->
        CountIn(ts, task)
        + (IF task.origin = "auto" /\ task.cancelled
           THEN CountIn(ts, [task EXCEPT !.cancelled = FALSE]) ELSE 0)]

\* an auto-save effect without its guard: every run arms the timeout
AutoSaveTimerUnguarded(loaded, loading, level, es, cause) ==
    <<[skillLevel |-> level, entries |-> es, cause |-> cause]>>

\* the body of the auto-save effect: the timeout it arms, if any
AutoSaveTimer(loaded, loading, level, es, cause) ==
    IF ~loaded \/ loading THEN <<>>
    ELSE <<[skillLevel |-> level, entries |-> es, cause |-> cause]>>

\* saveAvailabilityToSupabase after the DELETE's response
AfterDelete(task, ok) ==
    IF ~ok THEN "Supabase clear failed"
    ELSE IF task.entries = <<>> THEN "resolved"
    ELSE "insert"

\* a save that takes any response to the INSERT for a success
AfterInsertIgnoresStatus(task, ok) == "resolved"

\* saveAvailabilityToSupabase after the INSERT's response
AfterInsert(task, ok) == IF ok THEN "resolved" ELSE "Supabase save failed"

\* a DELETE without the skill_level filter
DeleteRowsOfEveryLevel(st, level) == [l \in SkillLevels |-> {}]

\* the table after a DELETE ... skill_level=eq.L that the backend ran
DeleteRows(st, level) == [st EXCEPT ![level] = {}]

\* a POST whose rows the backend does not store
InsertRowsStoresNothing(st, level, es) == st

\* the table after a POST with resolution=merge-duplicates that the backend ran
InsertRows(st, level, es) == [st EXCEPT ![level] = @ \cup Range(es)]

\* ------------------------------------------------------ the SQLite file
\* committed rows, the rows the open transaction sees, and whether one is open
Database(committed, working, inTxn) ==
    [committed |-> committed, working |-> working, inTxn |-> inTxn]

SqlBegin(db) == Database(db.committed, db.committed, TRUE)

\* a statement outside a transaction commits at once
SqlWrite(db, rows) ==
    IF db.inTxn THEN Database(db.committed, rows, TRUE) ELSE Database(rows, rows, FALSE)

SqlDelete(db) == SqlWrite(db, {})

\* INSERT ... ON CONFLICT(player_id, game_id) DO UPDATE SET updated_at
SqlInsert(db, e) == SqlWrite(db, db.working \cup {e})

SqlCommit(db) == Database(db.working, db.working, FALSE)

\* a ROLLBACK that keeps what the transaction wrote
SqlRollbackKeepsWrites(db) == Database(db.working, db.working, FALSE)

SqlRollback(db) == Database(db.committed, db.committed, FALSE)

\* SELECT ... FROM availability: the handlers run their statements without an
\* await between them, so a SELECT never comes from the connection whose
\* transaction is open; any other connection sees the committed rows
SqlSelect(db) == db.committed

\* the PUT request being handled: which backend handles it, the statement it
\* is at, the entries still to insert, the rows before it, the status of its
\* response and the error the response carries (named by what threw it)
Request(backend, pc, todo, prior, response, error) ==
    [backend |-> backend, pc |-> pc, todo |-> todo, prior |-> prior,
     response |-> response, error |-> error]
NoRequest == Request("none", "idle", <<>>, {}, 0, "")

\* data/availability.json: absent or unreadable (loadEntries returns []), or
\* the JSON list it holds
NoFile == [readable |-> FALSE, entries |-> <<>>]
FileOf(es) == [readable |-> TRUE, entries |-> es]

\* the record of the client's saves: none is kept (<<>>), or whether a save
\* the client started has failed so far
NoHistory == <<>>
Recording(saveFailed) == <<[saveFailed |-> saveFailed]>>

\* what a timer or a save is tagged with: its cause when a record is kept
CauseTag(h, cause) == IF h = NoHistory THEN "none" ELSE cause

\* ------------------------------------------------------- idle values
NormIdle ==
    /\ rawInput = NotAnArray
    /\ appResult = Pending
    /\ pluginResult = Pending
    /\ serverResult = Pending

SchedIdle ==
    /\ courts = <<>>
    /\ schedEntries = <<>>
    /\ maxDistanceKm = 0

PlannerIdle ==
    /\ skillLevel = "3.5"
    /\ entries = <<>>
    /\ shown = <<>>

ClientIdle ==
    /\ isLoading = TRUE
    /\ isSaving = FALSE
    /\ hasLoadedAvailability = FALSE
    /\ status = NoStatus
    /\ localStorage = [l \in SkillLevels |-> NoItem]
    /\ store = [l \in SkillLevels |-> {}]
    /\ supabaseConfigured = FALSE
    /\ loads = EmptyBag
    /\ timer = <<>>
    /\ saves = EmptyBag

SqliteIdle ==
    /\ database = Database({}, {}, FALSE)
    /\ request = NoRequest
    /\ lastRead = <<>>

EditIdle == edited = <<>>

FileIdle == file = NoFile

HistoryIdle == history = NoHistory

\* ------------------------------------------------- normalizeEntries runs
\* the list of Scenario D: a repeated entry, a negative playerId, a missing gameId
ScenarioD ==
    RawArray(<<RawObject(IntVal(1), IntVal(2)), RawObject(IntVal(1), IntVal(2)),
               RawObject(IntVal(-1), IntVal(3)), RawObject(IntVal(2), Undefined)>>)

InitNorm ==
    /\ rawInput \in RawInputs \cup {ScenarioD}
    /\ appResult = Pending
    /\ pluginResult = Pending
    /\ serverResult = Pending
    /\ variant = "none"
    /\ SchedIdle
    /\ PlannerIdle
    /\ ClientIdle
    /\ SqliteIdle
    /\ EditIdle
    /\ FileIdle
    /\ HistoryIdle

\* the same value is handed to the three implementations
CallNormalizeEntries ==
    /\ appResult.status = "pending"
    /\ appResult' = Ok(NormalizeEntriesApp(rawInput))
    /\ pluginResult' = NormalizeEntriesPlugin(rawInput)
    /\ serverResult' = NormalizeEntriesServer(rawInput)
    /\ UNCHANGED <<rawInput, variant, schedVars, plannerVars, clientVars, sqliteVars, editVars,
                   fileVars, historyVars>>

NextNorm == CallNormalizeEntries

SpecNorm == InitNorm /\ [][NextNorm]_vars

\* ------------------------------------------------- the scheduler's steps
\* the players, courts and sessions the user picks in the model
ActivePlayerIds == {1, 2, 3}
\* the court, day and slot the user selects before toggling: three sessions
\* at court 2 and one at the first added court
SelectableSlots ==
    {<<2, "Mon", "evening">>, <<2, "Sat", "morning">>, <<2, "Sat", "evening">>,
     <<6, "Mon", "evening">>}
\* what the user types into the distance fields, in tenths; <<>> is no number
MaxDistanceInputs == {20}
CourtDistanceInputs == {<<>>}

CourtIds(cs) == {cs[i].id : i \in 1..Len(cs)}

InitScheduler ==
    /\ variant = "scheduler"
    /\ courts = DEFAULT_COURTS
    /\ schedEntries = <<>>
    /\ maxDistanceKm = 50
    /\ NormIdle
    /\ PlannerIdle
    /\ ClientIdle
    /\ SqliteIdle
    /\ EditIdle
    /\ FileIdle
    /\ HistoryIdle

\* useAvailability.toggle, reached through toggleSlot
Toggle(entry) ==
    LET prev == schedEntries
        found == {i \in 1..Len(prev) : prev[i] = entry}
    IN IF found # {}
       THEN LET index == CHOOSE i \in found : \A j \in found : i <= j
            IN schedEntries' = [k \in 1..(Len(prev) - 1) |->
                                    IF k < index THEN prev[k] ELSE prev[k + 1]]
       ELSE schedEntries' = Append(prev, entry)

ToggleSlot ==
    /\ variant = "scheduler"
    /\ \E p \in ActivePlayerIds, sel \in SelectableSlots :
          LET entry == SchedEntry(p, sel[1], sel[2], sel[3])
          IN /\ sel[1] \in CourtIds(courts)
             /\ (\E i \in 1..Len(schedEntries) : schedEntries[i] = entry)
                   \/ Len(schedEntries) < MaxSchedEntries
             /\ Toggle(entry)
    /\ UNCHANGED <<courts, maxDistanceKm, normVars, variant, plannerVars, clientVars, sqliteVars, editVars,
                   fileVars, historyVars>>

\* handleAddCourt / addCourt: the id follows the last court's, a distance that
\* is no number becomes 3
AddCourt ==
    /\ variant = "scheduler"
    /\ Len(courts) < MaxCourts
    /\ \E d \in CourtDistanceInputs :
          LET nextId == (IF courts = <<>> THEN 0 ELSE courts[Len(courts)].id) + 1
          IN courts' = Append(courts, Court(nextId, IF d = <<>> THEN 30 ELSE d[1]))
    /\ UNCHANGED <<schedEntries, maxDistanceKm, normVars, variant, plannerVars, clientVars, sqliteVars, editVars,
                   fileVars, historyVars>>

\* setMaxDistanceKm(Math.max(1, Math.min(30, Number(value) || 1)))
SetMaxDistanceKm ==
    /\ variant = "scheduler"
    /\ \E v \in MaxDistanceInputs :
          LET n == IF v = 0 THEN 10 ELSE v
              capped == IF n < 300 THEN n ELSE 300
          IN maxDistanceKm' = IF capped > 10 THEN capped ELSE 10
    /\ UNCHANGED <<courts, schedEntries, normVars, variant, plannerVars, clientVars, sqliteVars, editVars,
                   fileVars, historyVars>>

ClearAllEntries ==
    /\ variant = "scheduler"
    /\ schedEntries' = <<>>
    /\ UNCHANGED <<courts, maxDistanceKm, normVars, variant, plannerVars, clientVars, sqliteVars, editVars,
                   fileVars, historyVars>>

\* the suggestion the scheduler displays (a useMemo of the state)
suggested == UseSuggestedSession(DEFAULT_PLAYERS, courts, schedEntries, maxDistanceKm)

\* ---------------------------------------------------- the planner's render
\* ids that occur in stored facts: 14 is a player of "3.5" only, 20 of no
\* roster; 5 is no game of either catalog
PlannerPlayerIds == {1, 14, 20}
PlannerGameIds == {1, 2, 5}
PlannerFacts == {Entry(p, g) : p \in PlannerPlayerIds, g \in PlannerGameIds}

\* the lists the client can hold: normalized, so without duplicates
EntryLists == {s \in SeqsUpTo(PlannerFacts, MaxEntries) : NoDuplicates(s)}

InitPlanner ==
    /\ variant = "planner"
    /\ skillLevel \in SkillLevels
    /\ entries \in EntryLists
    /\ shown = <<>>
    /\ NormIdle
    /\ SchedIdle
    /\ ClientIdle
    /\ SqliteIdle
    /\ EditIdle
    /\ FileIdle
    /\ HistoryIdle

players == PLAYERS_BY_SKILL_LEVEL[skillLevel]
games == GAMES_BY_SKILL_LEVEL[skillLevel]

\* a render of App: gameSummaries and bestGame are recomputed from the state
Render ==
    /\ variant = "planner"
    /\ shown = <<>>
    /\ LET gameSummaries == UseGameSummaries(players, games, entries)
       IN shown' = <<[gameSummaries |-> gameSummaries, bestGame |-> BestGame(gameSummaries)]>>
    /\ UNCHANGED <<skillLevel, entries, normVars, variant, schedVars, clientVars, sqliteVars, editVars,
                   fileVars, historyVars>>

InitEngine == InitScheduler \/ InitPlanner

NextEngine ==
    \/ ToggleSlot
    \/ AddCourt
    \/ SetMaxDistanceKm
    \/ ClearAllEntries
    \/ Render

SpecEngine == InitEngine /\ [][NextEngine]_vars

\* ------------------------------- useSuggestedSession on arbitrary facts
\* facts as a caller of the hook can pass them: 20 and 21 are ids of no player
SuggestPlayerIds == {1, 20, 21}
SuggestSessions == {<<"Mon", "evening">>, <<"Sat", "morning">>}
SuggestFacts ==
    {SchedEntry(p, c, ds[1], ds[2]) :
        p \in SuggestPlayerIds, c \in {2, 5}, ds \in SuggestSessions}

InitSuggest ==
    /\ variant = "suggest"
    /\ courts = DEFAULT_COURTS
    /\ maxDistanceKm \in {10, 50}
    /\ schedEntries \in {l \in SeqsUpTo(SuggestFacts, MaxSchedEntries) : NoDuplicates(l)}
    /\ NormIdle
    /\ PlannerIdle
    /\ ClientIdle
    /\ SqliteIdle
    /\ EditIdle
    /\ FileIdle
    /\ HistoryIdle

\* a render of the scheduler's App: the hook is evaluated on the inputs
RenderSuggestion ==
    /\ variant = "suggest"
    /\ shown = <<>>
    /\ shown' = <<[suggested |-> suggested]>>
    /\ UNCHANGED <<skillLevel, entries, normVars, variant, schedVars, clientVars, sqliteVars, editVars,
                   fileVars, historyVars>>

NextSuggest == RenderSuggestion

SpecSuggest == InitSuggest /\ [][NextSuggest]_vars

\* ------------------------------------------------ the planner as a client
\* most requests of the client (loads and saves) that await a response at a time
MaxInFlight == 2

InFlight == BagCardinality(loads) + BagCardinality(saves)

\* the cells the user edits, and what the backend and the browser hold at start
EditedPlayerIds == {1}
EditedGameIds == {1}

\* the table holds a row some other writer inserted with a player_id of 0
InitialStores ==
    {[l \in SkillLevels |-> IF l = "3.5" THEN {Entry(1, 1), Entry(0, 2)} ELSE {}]}

\* the browser holds an item with a repeated entry for "3.5" (written by an
\* earlier build) and one that does not parse for "3.0"
InitialLocalStorages ==
    {[l \in SkillLevels |->
        IF l = "3.5"
        THEN StoredItem(RawArray(<<RawObject(IntVal(1), IntVal(1)),
                                   RawObject(IntVal(1), IntVal(1))>>))
        ELSE MalformedItem]}

\* App mounted: the load effect has called loadAvailability; under
\* React.StrictMode a development build runs the effect, its cleanup and the
\* effect again, which leaves an aborted first call in flight
Mounted ==
    /\ variant = "client"
    /\ skillLevel = "3.5"
    /\ entries = <<>>
    /\ shown = <<>>
    /\ isLoading = TRUE
    /\ isSaving = FALSE
    /\ hasLoadedAvailability = FALSE
    /\ status = NoStatus
    /\ localStorage \in InitialLocalStorages
    /\ store \in InitialStores
    /\ supabaseConfigured \in BOOLEAN
    /\ loads \in {SetToBag({LoadTask("3.5", FALSE)}),
                  SetToBag({LoadTask("3.5", TRUE), LoadTask("3.5", FALSE)})}
    /\ timer = <<>>
    /\ saves = EmptyBag
    /\ NormIdle
    /\ SchedIdle
    /\ SqliteIdle
    /\ EditIdle
    /\ FileIdle

InitClient ==
    /\ Mounted
    /\ HistoryIdle

\* the skill-level select changes: the load effect's cleanup aborts the
\* running call, the effect starts a new one (isLoading, ref reset), and the
\* auto-save effect is cleaned up and returns at its guard
SetSkillLevel ==
    /\ variant = "client"
    /\ InFlight < MaxInFlight
    /\ \E level \in SkillLevels \ {skillLevel} :
          /\ skillLevel' = level
          /\ loads' = AddTask(AbortAll(loads), LoadTask(level, FALSE))
    /\ isLoading' = TRUE
    /\ hasLoadedAvailability' = FALSE
    /\ timer' = <<>>
    /\ saves' = CancelAuto(saves)
    /\ UNCHANGED <<entries, shown, isSaving, status, localStorage, store,
                   supabaseConfigured, normVars, variant, schedVars, sqliteVars, editVars,
                   fileVars, historyVars>>

\* a load's response is a success: the try block and finally run, then the
\* render's auto-save effect (entries is a new array)
LoadSucceeds ==
    /\ variant = "client"
    /\ supabaseConfigured
    /\ \E task \in DOMAIN loads :
          LET serverEntries ==
                  NormalizeEntriesApp(LoadAvailabilityFromSupabase(store, task.skillLevel))
              loaded == IF task.aborted THEN hasLoadedAvailability ELSE TRUE
              loading == IF task.aborted THEN isLoading ELSE FALSE
          IN /\ entries' = serverEntries
             /\ localStorage' =
                   WriteEntriesToLocalStorage(localStorage, task.skillLevel, serverEntries)
             /\ status' = Status("info", "Shared availability loaded")
             /\ hasLoadedAvailability' = loaded
             /\ isLoading' = loading
             /\ timer' = AutoSaveTimer(loaded, loading, skillLevel, serverEntries,
                                         CauseTag(history, "load"))
             /\ loads' = RemoveTask(loads, task)
    /\ saves' = CancelAuto(saves)
    /\ UNCHANGED <<skillLevel, shown, isSaving, store, supabaseConfigured,
                   normVars, variant, schedVars, sqliteVars, editVars,
                   fileVars, historyVars>>

\* a load fails (not configured, fetch rejected, or a non-2xx response): an
\* aborted call returns, any other falls back to the local cache
LoadFails ==
    /\ variant = "client"
    /\ \E task \in DOMAIN loads :
          LET localEntries == ReadEntriesFromLocalStorage(localStorage, task.skillLevel)
          IN /\ loads' = RemoveTask(loads, task)
             /\ IF task.aborted
                THEN UNCHANGED <<entries, status, hasLoadedAvailability, isLoading,
                                 timer, saves>>
                ELSE /\ entries' = localEntries
                     /\ status' =
                           IF ~supabaseConfigured
                           THEN Status("error", "Supabase is not configured")
                           ELSE IF Len(localEntries) > 0
                           THEN Status("error", "Supabase is unavailable. Showing last saved")
                           ELSE Status("error", "Supabase is unavailable. Starting empty")
                     /\ hasLoadedAvailability' = TRUE
                     /\ isLoading' = FALSE
                     /\ timer' = AutoSaveTimer(TRUE, FALSE, skillLevel, localEntries,
                                                 CauseTag(history, "cache"))
                     /\ saves' = CancelAuto(saves)
    /\ UNCHANGED <<skillLevel, shown, isSaving, localStorage, store, supabaseConfigured,
                   normVars, variant, schedVars, sqliteVars, editVars,
                   fileVars, historyVars>>

\* a cell's select changes (it is disabled while loading); when the updater
\* returns a new array the auto-save effect runs again
ChangeAvailability ==
    /\ variant = "client"
    /\ ~isLoading
    /\ \E playerId \in EditedPlayerIds, gameId \in EditedGameIds, available \in BOOLEAN :
          LET nextEntries == SetAvailability(entries, playerId, gameId, available)
          IN /\ entries' = nextEntries
             /\ IF nextEntries = entries
                THEN UNCHANGED <<timer, saves>>
                ELSE /\ timer' = AutoSaveTimer(hasLoadedAvailability, isLoading,
                                               skillLevel, nextEntries,
                                               CauseTag(history, "edit"))
                     /\ saves' = CancelAuto(saves)
    /\ UNCHANGED <<skillLevel, shown, isLoading, isSaving, hasLoadedAvailability, status,
                   localStorage, store, supabaseConfigured, loads,
                   normVars, variant, schedVars, sqliteVars, editVars,
                   fileVars, historyVars>>

\* the status a caller of saveAvailabilityToSupabase shows once the call
\* settles: every error is caught by one catch block with one message
StatusAfterSave(task, outcome, current) ==
    IF task.origin = "auto" /\ task.cancelled THEN current
    ELSE IF outcome # "resolved"
    THEN Status("error", "Could not sync")
    ELSE IF task.origin = "auto"
    THEN Status("info", "Changes synced")
    ELSE Status("info", "Changes saved")

\* what a caller of saveAvailabilityToSupabase does once the call settles:
\* both callers write the local cache; the timer's callback skips the status
\* and setIsSaving(false) when its effect run was cleaned up meanwhile
Settled(task, outcome) ==
    LET skipped == task.origin = "auto" /\ task.cancelled
    IN /\ localStorage' =
             WriteEntriesToLocalStorage(localStorage, task.skillLevel, task.entries)
       /\ status' = StatusAfterSave(task, outcome, status)
       /\ isSaving' = IF skipped THEN isSaving ELSE FALSE
       /\ history' = IF history = NoHistory THEN NoHistory
                     ELSE Recording(history[1].saveFailed \/ outcome # "resolved")

\* a caller starts saveAvailabilityToSupabase: without configuration the call
\* rejects before any request, otherwise the DELETE is sent
StartSave(task) ==
    IF ~supabaseConfigured
    THEN /\ Settled(task, MissingConfiguration)
         /\ UNCHANGED saves
    ELSE /\ isSaving' = TRUE
         /\ saves' = AddTask(saves, task)
         /\ UNCHANGED <<localStorage, status, history>>

\* the 300 ms timeout fires with the skill level and entries of its render
TimerFires ==
    /\ variant = "client"
    /\ timer # <<>>
    /\ InFlight < MaxInFlight
    /\ StartSave([SaveTask(timer[1].skillLevel, timer[1].entries, "delete", "auto")
                     EXCEPT !.cause = timer[1].cause])
    /\ timer' = <<>>
    /\ UNCHANGED <<skillLevel, entries, shown, isLoading, hasLoadedAvailability, store,
                   supabaseConfigured, loads, normVars, variant, schedVars, sqliteVars, editVars,
                   fileVars>>

\* the Save now button (disabled while loading or saving)
SaveNow ==
    /\ variant = "client"
    /\ ~(isLoading \/ isSaving)
    /\ InFlight < MaxInFlight
    /\ StartSave([SaveTask(skillLevel, entries, "delete", "now")
                     EXCEPT !.cause = CauseTag(history, "now")])
    /\ UNCHANGED <<skillLevel, entries, shown, isLoading, hasLoadedAvailability, store,
                   supabaseConfigured, loads, timer, normVars, variant, schedVars,
                   sqliteVars, editVars,
                   fileVars>>

\* the DELETE's response arrives: on 2xx the backend has removed the level's rows
SaveDeleteResponds ==
    /\ variant = "client"
    /\ \E task \in DOMAIN saves, ok \in BOOLEAN :
          LET next == AfterDelete(task, ok)
          IN /\ task.pc = "delete"
             /\ store' = IF ok THEN DeleteRows(store, task.skillLevel) ELSE store
             /\ IF next = "insert"
                THEN /\ saves' = AddTask(RemoveTask(saves, task), [task EXCEPT !.pc = "insert"])
                     /\ UNCHANGED <<localStorage, status, isSaving, history>>
                ELSE /\ saves' = RemoveTask(saves, task)
                     /\ Settled(task, next)
    /\ UNCHANGED <<skillLevel, entries, shown, isLoading, hasLoadedAvailability,
                   supabaseConfigured, loads, timer, normVars, variant, schedVars,
                   sqliteVars, editVars,
                   fileVars>>

\* the INSERT's response arrives: on 2xx the backend has merged the rows in
SaveInsertResponds ==
    /\ variant = "client"
    /\ \E task \in DOMAIN saves, ok \in BOOLEAN :
          /\ task.pc = "insert"
          /\ store' = IF ok THEN InsertRows(store, task.skillLevel, task.entries)
                      ELSE store
          /\ saves' = RemoveTask(saves, task)
          /\ Settled(task, AfterInsert(task, ok))
    /\ UNCHANGED <<skillLevel, entries, shown, isLoading, hasLoadedAvailability,
                   supabaseConfigured, loads, timer, normVars, variant, schedVars,
                   sqliteVars, editVars,
                   fileVars>>

NextClient ==
    \/ SetSkillLevel
    \/ LoadSucceeds
    \/ LoadFails
    \/ ChangeAvailability
    \/ TimerFires
    \/ SaveNow
    \/ SaveDeleteResponds
    \/ SaveInsertResponds

SpecClient == InitClient /\ [][NextClient]_vars

\* the same client, with the record of its saves kept
InitAudit ==
    /\ Mounted
    /\ history = Recording(FALSE)

SpecAudit == InitAudit /\ [][NextClient]_vars

\* the client once its first load has succeeded (the state LoadSucceeds
\* leaves), with the record kept; from here the user edits and saves and
\* leaves the skill level alone
InitAutoSave ==
    /\ variant = "client"
    /\ skillLevel = "3.5"
    /\ \E st \in InitialStores, ls \in InitialLocalStorages :
          LET serverEntries == NormalizeEntriesApp(LoadAvailabilityFromSupabase(st, "3.5"))
          IN /\ store = st
             /\ entries = serverEntries
             /\ localStorage = WriteEntriesToLocalStorage(ls, "3.5", serverEntries)
             /\ timer = AutoSaveTimer(TRUE, FALSE, "3.5", serverEntries, "load")
    /\ shown = <<>>
    /\ isLoading = FALSE
    /\ isSaving = FALSE
    /\ hasLoadedAvailability = TRUE
    /\ status = Status("info", "Shared availability loaded")
    /\ supabaseConfigured = TRUE
    /\ loads = EmptyBag
    /\ saves = EmptyBag
    /\ history = Recording(FALSE)
    /\ NormIdle
    /\ SchedIdle
    /\ SqliteIdle
    /\ EditIdle
    /\ FileIdle

NextAutoSave ==
    \/ ChangeAvailability
    \/ TimerFires
    \/ SaveNow
    \/ SaveDeleteResponds
    \/ SaveInsertResponds

SpecAutoSave == InitAutoSave /\ [][NextAutoSave]_vars

\* ------------------------------------------ the SQLite-backed PUT handler
\* rows the table and the payloads hold
SqlRows == {Entry(1, 1), Entry(2, 1)}

\* body.entries of a PUT: no array, an empty list, a list over the cap, lists
\* with and without a repeated entry
\* a list of distinct valid entries, one more than the cap allows
OverCapBody == RawArray([i \in 1..(EntryCap + 1) |-> RawObject(IntVal(i), IntVal(1))])

PutBodies ==
    {NotAnArray, RawArray(<<>>), OverCapBody}
    \cup {RawArray(<<RawObject(IntVal(1), IntVal(1))>>),
          RawArray(<<RawObject(IntVal(2), IntVal(1)), RawObject(IntVal(1), IntVal(1))>>),
          RawArray(<<RawObject(IntVal(1), IntVal(1)), RawObject(IntVal(1), IntVal(1))>>),
          RawArray(<<RawObject(IntVal(1), IntVal(1)), RawObject(IntVal(2), IntVal(1)),
                     RawObject(IntVal(1), IntVal(1))>>)}

Backends == {"plugin", "server"}

\* the specifications that run the statements of a PUT
SqliteVariants == {"sqlite", "roundtrip"}

InitSqlite ==
    /\ variant = "sqlite"
    /\ \E rows \in SUBSET SqlRows : database = Database(rows, rows, FALSE)
    /\ request = NoRequest
    /\ lastRead = <<>>
    /\ NormIdle
    /\ SchedIdle
    /\ PlannerIdle
    /\ ClientIdle
    /\ EditIdle
    /\ FileIdle
    /\ HistoryIdle

\* normalizeEntries(body.entries) of the backend that handles the request
Normalized(backend, body) ==
    IF backend = "plugin" THEN NormalizeEntriesPlugin(body) ELSE NormalizeEntriesServer(body)

\* the error of a body JSON.parse rejects
MalformedJson == "Unexpected token in JSON"

\* a throw before the first statement is caught by the handler's catch block
\* (the promise's .catch in the server) and answered with 500 and the message
PutRejected(backend, prior, message) == Request(backend, "done", <<>>, prior, 500, message)

\* a handler that goes on to its statements although normalizeEntries threw
PutRequestIgnoresThrow(backend, normalized, prior) ==
    [Request(backend, "begin", <<Entry(1, 1)>>, prior, 0, "") EXCEPT
        !.error = normalized.message]

\* the request after normalizeEntries: a throw ends it, otherwise the
\* statements run with the normalized entries
PutRequest(backend, normalized, prior) ==
    IF normalized.status = "error" THEN PutRejected(backend, prior, normalized.message)
    ELSE Request(backend, "begin", normalized.entries, prior, 0, "")

\* PUT /api/availability arrives at one of the two backends: the body is
\* parsed and normalized; a throw is answered with 500 and no statement runs
ReceivePut ==
    /\ variant = "sqlite"
    /\ request.pc = "idle"
    /\ \E backend \in Backends, parses \in BOOLEAN, body \in PutBodies :
          request' = IF parses
                     THEN PutRequest(backend, Normalized(backend, body), database.committed)
                     ELSE PutRejected(backend, database.committed, MalformedJson)
    /\ UNCHANGED <<database, lastRead, normVars, variant, schedVars, plannerVars,
                   clientVars, editVars,
                   fileVars, historyVars>>

\* database.exec("BEGIN"): the plugin runs it inside its try block, so its
\* failure leads to the catch block's ROLLBACK; the server runs it before
\* the try block, so its failure goes to the promise's catch
ExecBegin ==
    /\ variant \in SqliteVariants
    /\ request.pc = "begin"
    /\ \E ok \in BOOLEAN :
          IF ok
          THEN /\ database' = SqlBegin(database)
               /\ request' = [request EXCEPT !.pc = "delete"]
          ELSE /\ database' = database
               /\ request' = IF request.backend = "plugin"
                             THEN [request EXCEPT !.pc = "rollback", !.error = "BEGIN"]
                             ELSE [request EXCEPT !.pc = "done", !.response = 500,
                                                  !.error = "BEGIN"]
    /\ UNCHANGED <<lastRead, normVars, variant, schedVars, plannerVars, clientVars,
                   editVars,
                   fileVars, historyVars>>

\* database.exec("DELETE FROM availability")
ExecDelete ==
    /\ variant \in SqliteVariants
    /\ request.pc = "delete"
    /\ \E ok \in BOOLEAN :
          IF ok
          THEN /\ database' = SqlDelete(database)
               /\ request' = [request EXCEPT
                                 !.pc = IF request.todo = <<>> THEN "commit" ELSE "insert"]
          ELSE /\ database' = database
               /\ request' = [request EXCEPT !.pc = "rollback", !.error = "DELETE"]
    /\ UNCHANGED <<lastRead, normVars, variant, schedVars, plannerVars, clientVars,
                   editVars,
                   fileVars, historyVars>>

\* insert.run(entry.playerId, entry.gameId) for the next entry of the loop
ExecInsert ==
    /\ variant \in SqliteVariants
    /\ request.pc = "insert"
    /\ \E ok \in BOOLEAN :
          IF ok
          THEN /\ database' = SqlInsert(database, Head(request.todo))
               /\ request' = [request EXCEPT
                                 !.todo = Tail(request.todo),
                                 !.pc = IF Tail(request.todo) = <<>> THEN "commit"
                                        ELSE "insert"]
          ELSE /\ database' = database
               /\ request' = [request EXCEPT !.pc = "rollback", !.error = "INSERT"]
    /\ UNCHANGED <<lastRead, normVars, variant, schedVars, plannerVars, clientVars,
                   editVars,
                   fileVars, historyVars>>

\* database.exec("COMMIT"), then the 200 response
ExecCommit ==
    /\ variant \in SqliteVariants
    /\ request.pc = "commit"
    /\ \E ok \in BOOLEAN :
          IF ok
          THEN /\ database' = SqlCommit(database)
               /\ request' = [request EXCEPT !.pc = "done", !.response = 200]
          ELSE /\ database' = database
               /\ request' = [request EXCEPT !.pc = "rollback", !.error = "COMMIT"]
    /\ UNCHANGED <<lastRead, normVars, variant, schedVars, plannerVars, clientVars,
                   editVars,
                   fileVars, historyVars>>

\* the catch block: database.exec("ROLLBACK"), the error is thrown on and
\* answered with 500; with no transaction open (the plugin's BEGIN failed)
\* the ROLLBACK throws itself and its error is the one answered
ExecRollback ==
    /\ variant \in SqliteVariants
    /\ request.pc = "rollback"
    /\ database' = SqlRollback(database)
    /\ request' = [request EXCEPT
                      !.pc = "done", !.response = 500,
                      !.error = IF database.inTxn THEN @ ELSE "ROLLBACK"]
    /\ UNCHANGED <<lastRead, normVars, variant, schedVars, plannerVars, clientVars,
                   editVars,
                   fileVars, historyVars>>

\* the response is sent and the handler returns
FinishPut ==
    /\ variant \in SqliteVariants
    /\ request.pc = "done"
    /\ request' = NoRequest
    /\ UNCHANGED <<database, lastRead, normVars, variant, schedVars, plannerVars,
                   clientVars, editVars,
                   fileVars, historyVars>>

\* GET /api/availability (or a SELECT of another process that has the file
\* open): the rows it returns, with the statement the PUT was at
HandleRead ==
    /\ variant = "sqlite"
    /\ lastRead' = <<[rows |-> SqlSelect(database), pc |-> request.pc,
                      prior |-> request.prior]>>
    /\ UNCHANGED <<database, request, normVars, variant, schedVars, plannerVars,
                   clientVars, editVars,
                   fileVars, historyVars>>

NextSqlite ==
    \/ ReceivePut
    \/ ExecBegin
    \/ ExecDelete
    \/ ExecInsert
    \/ ExecCommit
    \/ ExecRollback
    \/ FinishPut
    \/ HandleRead

SpecSqlite == InitSqlite /\ [][NextSqlite]_vars

\* -------------------------------- one call of saveAvailabilityToSupabase
SavedRows == {Entry(1, 1), Entry(2, 1)}

\* the specifications that run one call of saveAvailabilityToSupabase
SaveVariants == {"save", "roundtrip"}
SavedLists == {s \in SeqsUpTo(SavedRows, Cardinality(SavedRows)) : NoDuplicates(s)}

InitSave ==
    /\ variant = "save"
    /\ supabaseConfigured \in BOOLEAN
    /\ \E kept \in SUBSET {Entry(1, 1), Entry(1, 2)}, other \in {{}, {Entry(1, 1)}} :
          store = [l \in SkillLevels |-> IF l = "3.5" THEN kept ELSE other]
    /\ \E level \in SkillLevels, es \in SavedLists, origin \in {"now", "auto"} :
          saves = SetToBag({SaveTask(level, es, "start", origin)})
    /\ isLoading = FALSE
    /\ isSaving = TRUE
    /\ hasLoadedAvailability = TRUE
    /\ status = NoStatus
    /\ localStorage = [l \in SkillLevels |-> NoItem]
    /\ loads = EmptyBag
    /\ timer = <<>>
    /\ NormIdle
    /\ SchedIdle
    /\ PlannerIdle
    /\ SqliteIdle
    /\ EditIdle
    /\ FileIdle
    /\ HistoryIdle

\* how a call of saveAvailabilityToSupabase ends: it resolves, or throws one
\* of its three errors
SettledPcs ==
    {"resolved", MissingConfiguration, "Supabase clear failed", "Supabase save failed"}

\* the call's task moves on to the next pc
MoveTo(task, pc) == saves' = AddTask(RemoveTask(saves, task), [task EXCEPT !.pc = pc])

\* the call checks the configuration and sends the DELETE
SaveCallStarts ==
    /\ variant \in SaveVariants
    /\ \E task \in DOMAIN saves :
          /\ task.pc = "start"
          /\ MoveTo(task, IF supabaseConfigured THEN "delete" ELSE MissingConfiguration)
    /\ UNCHANGED <<store, isLoading, isSaving, hasLoadedAvailability, status, localStorage,
                   supabaseConfigured, loads, timer, normVars, variant, schedVars,
                   plannerVars, sqliteVars, editVars,
                   fileVars, historyVars>>

\* the DELETE's response arrives
SaveCallDeleteResponds ==
    /\ variant \in SaveVariants
    /\ \E task \in DOMAIN saves, ok \in BOOLEAN :
          /\ task.pc = "delete"
          /\ store' = IF ok THEN DeleteRows(store, task.skillLevel) ELSE store
          /\ MoveTo(task, AfterDelete(task, ok))
    /\ UNCHANGED <<isLoading, isSaving, hasLoadedAvailability, status, localStorage,
                   supabaseConfigured, loads, timer, normVars, variant, schedVars,
                   plannerVars, sqliteVars, editVars,
                   fileVars, historyVars>>

\* the INSERT's response arrives
SaveCallInsertResponds ==
    /\ variant \in SaveVariants
    /\ \E task \in DOMAIN saves, ok \in BOOLEAN :
          /\ task.pc = "insert"
          /\ store' = IF ok THEN InsertRows(store, task.skillLevel, task.entries)
                      ELSE store
          /\ MoveTo(task, AfterInsert(task, ok))
    /\ UNCHANGED <<isLoading, isSaving, hasLoadedAvailability, status, localStorage,
                   supabaseConfigured, loads, timer, normVars, variant, schedVars,
                   plannerVars, sqliteVars, editVars,
                   fileVars, historyVars>>

\* the call has settled: the caller's try, catch and finally blocks run
SaveCallSettles ==
    /\ variant = "save"
    /\ isSaving
    /\ \E task \in DOMAIN saves :
          /\ task.pc \in SettledPcs
          /\ Settled(task, task.pc)
    /\ UNCHANGED <<store, isLoading, hasLoadedAvailability, supabaseConfigured, loads, timer,
                   saves, normVars, variant, schedVars, plannerVars, sqliteVars, editVars,
                   fileVars>>

NextSave ==
    \/ SaveCallStarts
    \/ SaveCallDeleteResponds
    \/ SaveCallInsertResponds
    \/ SaveCallSettles

SpecSave == InitSave /\ [][NextSave]_vars

\* ------------------------------- a read whose result is written back
\* rows.map(row => ({ playerId: row.player_id, gameId: row.game_id })) and
\* the entries of a GET's JSON body: the ids as they are, nothing dropped
EntriesOf(raw) ==
    [i \in 1..Len(raw.items) |-> Entry(raw.items[i].playerId.v, raw.items[i].gameId.v)]

\* the rows the Supabase table holds at start; (0, 2) came from another writer
RoundTripRows == {Entry(1, 1), Entry(2, 1), Entry(0, 2)}

\* a read that was written back: the backend it went to, what it returned
\* and what the backend held when it was made
ReadBack(from, rows, prior) == [from |-> from, rows |-> rows, prior |-> prior]

WasRead(from) == \E i \in 1..Len(lastRead) : lastRead[i].from = from

\* the SQLite table holds what earlier PUTs stored: normalized entries, no
\* more than the cap
InitRoundTrip ==
    /\ variant = "roundtrip"
    /\ \E kept \in SUBSET RoundTripRows, other \in {{}, {Entry(1, 1)}} :
          store = [l \in SkillLevels |-> IF l = "3.5" THEN kept ELSE other]
    /\ \E rows \in SUBSET SqlRows :
          /\ Cardinality(rows) <= EntryCap
          /\ database = Database(rows, rows, FALSE)
    /\ supabaseConfigured = TRUE
    /\ saves = EmptyBag
    /\ request = NoRequest
    /\ lastRead = <<>>
    /\ isLoading = FALSE
    /\ isSaving = FALSE
    /\ hasLoadedAvailability = TRUE
    /\ status = NoStatus
    /\ localStorage = [l \in SkillLevels |-> NoItem]
    /\ loads = EmptyBag
    /\ timer = <<>>
    /\ NormIdle
    /\ SchedIdle
    /\ PlannerIdle
    /\ EditIdle
    /\ FileIdle
    /\ HistoryIdle

\* loadAvailabilityFromSupabase(level) succeeds and its result is handed to
\* saveAvailabilityToSupabase(level, ...)
LoadAndSaveBack ==
    /\ variant = "roundtrip"
    /\ ~WasRead("supabase")
    /\ \E level \in SkillLevels :
          LET loaded == EntriesOf(LoadAvailabilityFromSupabase(store, level))
          IN /\ lastRead' = Append(lastRead, ReadBack("supabase", Range(loaded), store))
             /\ saves' = SetToBag({SaveTask(level, loaded, "start", "now")})
    /\ UNCHANGED <<store, database, request, isLoading, isSaving, hasLoadedAvailability,
                   status, localStorage, supabaseConfigured, loads, timer, normVars, variant,
                   schedVars, plannerVars, editVars, fileVars, historyVars>>

\* GET /api/availability answers, and its entries are sent back in a PUT
GetAndPutBack ==
    /\ variant = "roundtrip"
    /\ ~WasRead("sqlite")
    /\ request.pc = "idle"
    /\ \E backend \in Backends :
          LET rows == SqlSelect(database)
              body == ToJson(OrderedRows(rows))
          IN /\ lastRead' = Append(lastRead, ReadBack("sqlite", rows, database.committed))
             /\ request' = PutRequest(backend, Normalized(backend, body), database.committed)
    /\ UNCHANGED <<database, normVars, variant, schedVars, plannerVars, clientVars,
                   editVars, fileVars, historyVars>>

NextRoundTrip ==
    \/ LoadAndSaveBack
    \/ SaveCallStarts
    \/ SaveCallDeleteResponds
    \/ SaveCallInsertResponds
    \/ GetAndPutBack
    \/ ExecBegin
    \/ ExecDelete
    \/ ExecInsert
    \/ ExecCommit
    \/ ExecRollback

SpecRoundTrip == InitRoundTrip /\ [][NextRoundTrip]_vars

\* ------------------------------------ the file-backed PUT handler
\* isValidEntry: an object whose playerId and gameId are integers
IsValidEntry(item) ==
    item.obj /\ RawIsInteger(item.playerId) /\ RawIsInteger(item.gameId)

\* parsed.entries.filter(isValidEntry): the entries are stored as they came
FilterValid(items) ==
    LET kept == SelectSeq(items, IsValidEntry)
    IN [i \in 1..Len(kept) |-> Entry(kept[i].playerId.v, kept[i].gameId.v)]

\* loadEntries: [] when the file is missing or does not parse
LoadEntries(f) == IF f.readable THEN f.entries ELSE <<>>

\* the items of the bodies the file backend receives
FileItems ==
    {NonObject, RawObject(IntVal(1), IntVal(1)), RawObject(IntVal(0), IntVal(1)),
     RawObject(StrVal(1), IntVal(1)), RawObject(IntVal(1), Undefined)}

\* longest entries list of a body sent to the file backend
MaxFileLen == 2

FilePutBodies == {NotAnArray} \cup {RawArray(items) : items \in SeqsUpTo(FileItems, MaxFileLen)}

\* the file is missing, or holds what an earlier PUT stored
InitFile ==
    /\ variant = "file"
    /\ file \in {NoFile, FileOf(<<>>), FileOf(<<Entry(1, 1)>>)}
    /\ request = NoRequest
    /\ lastRead = <<>>
    /\ database = Database({}, {}, FALSE)
    /\ NormIdle
    /\ SchedIdle
    /\ PlannerIdle
    /\ ClientIdle
    /\ EditIdle
    /\ HistoryIdle

\* PUT /api/availability: the body has ended; a body that does not parse and
\* an entries field that is no array are answered with 400, otherwise the
\* valid entries go to saveEntries
FileReceivePut ==
    /\ variant = "file"
    /\ request.pc = "idle"
    /\ \E parses \in BOOLEAN, body \in FilePutBodies :
          request' =
             IF ~parses THEN Request("file", "done", <<>>, file, 400, "Invalid JSON")
             ELSE IF ~body.array
             THEN Request("file", "done", <<>>, file, 400, "Invalid payload")
             ELSE Request("file", "write", FilterValid(body.items), file, 0, "")
    /\ UNCHANGED <<file, database, lastRead, normVars, variant, schedVars, plannerVars,
                   clientVars, editVars, historyVars>>

\* saveEntries: mkdir and writeFile; a rejection (before the file is opened,
\* or after opening it has truncated it) is caught by the handler's catch
\* block and answered with 400 "Invalid JSON"
FileSaveEntries ==
    /\ variant = "file"
    /\ request.pc = "write"
    /\ \E outcome \in {"written", "rejected", "truncated"} :
          /\ file' = CASE outcome = "written" -> FileOf(request.todo)
                        [] outcome = "rejected" -> file
                        [] OTHER -> NoFile
          /\ request' = IF outcome = "written"
                         THEN [request EXCEPT !.pc = "done", !.response = 200]
                         ELSE [request EXCEPT !.pc = "done", !.response = 400,
                                              !.error = "Invalid JSON"]
    /\ UNCHANGED <<database, lastRead, normVars, variant, schedVars, plannerVars,
                   clientVars, editVars, historyVars>>

\* the response is sent and the handler returns
FileFinishPut ==
    /\ variant = "file"
    /\ request.pc = "done"
    /\ request' = NoRequest
    /\ UNCHANGED <<file, database, lastRead, normVars, variant, schedVars, plannerVars,
                   clientVars, editVars, historyVars>>

\* GET /api/availability: loadEntries
FileGet ==
    /\ variant = "file"
    /\ lastRead' = <<[rows |-> LoadEntries(file), pc |-> request.pc, prior |-> NoFile]>>
    /\ UNCHANGED <<file, database, request, normVars, variant, schedVars, plannerVars,
                   clientVars, editVars, historyVars>>

NextFile ==
    \/ FileReceivePut
    \/ FileSaveEntries
    \/ FileFinishPut
    \/ FileGet

SpecFile == InitFile /\ [][NextFile]_vars

\* --------------------------------------- setAvailability on a held list
\* the planner holds a normalized list; a cell's select changes once
InitEdit ==
    /\ variant = "edit"
    /\ skillLevel \in SkillLevels
    /\ entries \in EntryLists
    /\ shown = <<>>
    /\ edited = <<>>
    /\ NormIdle
    /\ SchedIdle
    /\ ClientIdle
    /\ SqliteIdle
    /\ FileIdle
    /\ HistoryIdle

ApplySetAvailability ==
    /\ variant = "edit"
    /\ edited = <<>>
    /\ \E playerId \in PlannerPlayerIds, gameId \in PlannerGameIds, available \in BOOLEAN :
          /\ entries' = SetAvailability(entries, playerId, gameId, available)
          /\ edited' = <<[playerId |-> playerId, gameId |-> gameId, available |-> available,
                          previousEntries |-> entries]>>
    /\ UNCHANGED <<skillLevel, shown, normVars, variant, schedVars, clientVars, sqliteVars,
                   fileVars, historyVars>>

NextEdit == ApplySetAvailability

SpecEdit == InitEdit /\ [][NextEdit]_vars

\* ------------------------------------------------------------- claims
\* a normalized list: no (playerId, gameId) pair twice, every id a positive integer
IsNormalized(es) ==
    /\ NoDuplicates(es)
    /\ \A i \in 1..Len(es) :
          /\ es[i].playerId \in Nat \ {0}
          /\ es[i].gameId \in Nat \ {0}

\* C1: whatever list normalizeEntries is given, the collection it returns (in
\* each of the three implementations) holds no (playerId, gameId) pair twice
\* and only positive integer ids.
C1_NormalizeReturnsSetOfPositivePairs ==
    /\ appResult.status = "ok" => IsNormalized(appResult.entries)
    /\ pluginResult.status = "ok" => IsNormalized(pluginResult.entries)
    /\ serverResult.status = "ok" => IsNormalized(serverResult.entries)

\* C1 witness: a list with the same valid pair twice and an invalid entry has
\* been normalized by all three implementations, each returning the pair once.
C1_Witness ==
    /\ rawInput.array
    /\ \E i, j, k \in 1..Len(rawInput.items) :
          /\ i < j
          /\ rawInput.items[i] = RawObject(IntVal(1), IntVal(2))
          /\ rawInput.items[j] = rawInput.items[i]
          /\ rawInput.items[k] = RawObject(IntVal(-1), IntVal(1))
    /\ appResult = Ok(<<Entry(1, 2)>>)
    /\ pluginResult = Ok(<<Entry(1, 2)>>)
    /\ serverResult = Ok(<<Entry(1, 2)>>)


\* ---- what the spec calls attendance, stated without the engine's operators
\* scheduler events are (court, day, slot), named by their positions in the
\* courts array, DAYS and SLOTS
Session(i, j, k) == [court |-> i, day |-> j, slot |-> k]

\* the session a fact or a suggestion names (court ids are unique)
SessionAt(courtId, day, slot) ==
    Session(CHOOSE i \in 1..Len(courts) : courts[i].id = courtId,
            CHOOSE j \in 1..Len(DAYS) : DAYS[j] = day,
            CHOOSE k \in 1..Len(SLOTS) : SLOTS[k] = slot)

SessionOf(sg) == SessionAt(sg.court.id, sg.day, sg.slot)

IsEligible(x) == courts[x.court].distanceKm <= maxDistanceKm

\* the sessions with at least one fact; every other session has attendance 0
FactSessions ==
    {SessionAt(schedEntries[n].courtId, schedEntries[n].day, schedEntries[n].slot) :
        n \in 1..Len(schedEntries)}

EligibleFactSessions == {x \in FactSessions : IsEligible(x)}

\* the ids with a fact for the session, and those of them that are players
FactIdsAt(x) ==
    {schedEntries[n].playerId : n \in
        {m \in 1..Len(schedEntries) :
            /\ schedEntries[m].courtId = courts[x.court].id
            /\ schedEntries[m].day = DAYS[x.day]
            /\ schedEntries[m].slot = SLOTS[x.slot]}}

RosterIds == Range(DEFAULT_PLAYERS)

AttendeesAt(x) == FactIdsAt(x) \cap RosterIds

\* catalog iteration order: court, then day, then slot
ComesBefore(x, y) ==
    \/ x.court < y.court
    \/ x.court = y.court /\ x.day < y.day
    \/ x.court = y.court /\ x.day = y.day /\ x.slot < y.slot

\* x is eligible, attended, has the highest attendance of the eligible
\* sessions and is the first such (a session without facts has attendance 0,
\* so only the sessions with facts can match an attended one)
IsBestSession(x) ==
    /\ IsEligible(x)
    /\ LET mine == Cardinality(AttendeesAt(x))
       IN /\ mine > 0
          /\ \A y \in EligibleFactSessions :
                LET theirs == Cardinality(AttendeesAt(y))
                IN theirs <= mine /\ (theirs = mine => ~ComesBefore(y, x))

\* the planner's attendance: roster players with a fact for the game
RosterCount(gameId) ==
    Cardinality({entries[n].playerId : n \in
        {m \in 1..Len(entries) :
            /\ entries[m].gameId = gameId
            /\ \E i \in 1..Len(players) : players[i] = entries[m].playerId}})

\* the counts of the catalog's games, in array order
RosterCounts == [i \in 1..Len(games) |-> RosterCount(games[i])]

\* the largest of the counts, and the first place it occurs at
MaxOf(counts) == CHOOSE c \in Range(counts) : \A i \in 1..Len(counts) : counts[i] <= c

FirstIndexOf(counts, c) ==
    CHOOSE i \in 1..Len(counts) : counts[i] = c /\ \A j \in 1..(i - 1) : counts[j] # c

\* C2: recommend returns the eligible event with the highest attendance count;
\* on a tie it is the first in catalog order (array order for bestGame; court,
\* then day, then slot for useSuggestedSession).
C2_RecommendIsFirstOfHighestCount ==
    /\ (variant = "scheduler" /\ \E x \in EligibleFactSessions : AttendeesAt(x) # {})
          => LET sg == suggested
             IN sg # <<>> /\ LET best == SessionOf(sg[1]) IN IsBestSession(best)
    /\ (variant = "planner" /\ shown # <<>>)
          => LET counts == <<RosterCounts[1], RosterCounts[2], RosterCounts[3], RosterCounts[4]>>
                 highest == MaxOf(counts)
             IN highest > 0 =>
                   /\ shown[1].bestGame # <<>>
                   /\ shown[1].bestGame[1].game = games[FirstIndexOf(counts, highest)]
                   /\ shown[1].bestGame[1].count = highest

\* C2 witness: two eligible sessions of one court and one day are tied on the
\* highest count and the scheduler suggests the one with the earlier slot.
C2_Witness ==
    /\ variant = "scheduler"
    /\ LET sg == suggested
       IN /\ sg # <<>>
          /\ LET best == SessionOf(sg[1])
             IN /\ Cardinality(AttendeesAt(best)) = 1
                /\ \E y \in EligibleFactSessions \ {best} :
                      /\ Cardinality(AttendeesAt(y)) = 1
                      /\ y.court = best.court
                      /\ y.day = best.day

\* the facts of Scenario A: players 1 and 2 at session x, player 3 at session y
IsScenarioA(x, y) ==
    /\ Len(schedEntries) = 3
    /\ FactIdsAt(x) = {1, 2}
    /\ FactIdsAt(y) = {3}

\* C3: the suggested session is never at a court farther than maxDistanceKm;
\* with facts {(P1,E1),(P2,E1),(P3,E2)}, E1 in range and E2 out of range, the
\* suggestion is E1 with attendees P1 and P2.
C3_SuggestionWithinDistance ==
    variant = "scheduler" =>
        LET sg == suggested
        IN /\ sg # <<>> => sg[1].court.distanceKm <= maxDistanceKm
           /\ \A x, y \in FactSessions :
                 (IsEligible(x) /\ ~IsEligible(y) /\ IsScenarioA(x, y)) =>
                     /\ sg # <<>>
                     /\ SessionOf(sg[1]) = x
                     /\ Len(sg[1].playerNames) = 2
                     /\ Range(sg[1].playerNames) = {1, 2}

\* C3 witness: Scenario A has been entered: two players at a court in range,
\* a third at a court out of range.
C3_Witness ==
    /\ variant = "scheduler"
    /\ suggested # <<>>
    /\ \E x, y \in FactSessions : IsEligible(x) /\ ~IsEligible(y) /\ IsScenarioA(x, y)

\* C4: recommend returns no recommendation when no event is eligible or every
\* eligible event has zero attendance (so also for an empty fact set).
C4_NoRecommendationWithoutAttendance ==
    /\ (variant = "scheduler" /\ \A x \in EligibleFactSessions : AttendeesAt(x) = {})
          => suggested = <<>>
    /\ (variant = "planner" /\ shown # <<>> /\ \A i \in 1..Len(games) : RosterCount(games[i]) = 0)
          => shown[1].bestGame = <<>>

\* C4 witness: the planner has rendered a list of facts none of which counts
\* (unknown players or games only), and shows no best game.
C4_Witness ==
    /\ variant = "planner"
    /\ shown # <<>>
    /\ entries # <<>>
    /\ \A i \in 1..Len(games) : RosterCount(games[i]) = 0
    /\ shown[1].bestGame = <<>>

\* the facts whose player is in the roster and whose game is in the catalog
KnownOnly(es) ==
    SelectSeq(es, LAMBDA e : e.playerId \in Range(players) /\ e.gameId \in Range(games))

\* C5: useGameSummaries and bestGame ignore a fact whose player is not in the
\* roster or whose game is not in the catalog: the summaries and the best game
\* are those of the list without such facts, and every listed player is in
\* the roster.
C5_SummariesIgnoreUnknownIds ==
    (variant = "planner" /\ shown # <<>>) =>
        /\ shown[1].gameSummaries = UseGameSummaries(players, games, KnownOnly(entries))
        /\ shown[1].bestGame = BestGame(UseGameSummaries(players, games, KnownOnly(entries)))
        /\ \A i \in 1..Len(shown[1].gameSummaries) :
              /\ Range(shown[1].gameSummaries[i].availablePlayers) \subseteq Range(players)
              /\ shown[1].gameSummaries[i].count = RosterCount(games[i])

\* C5 witness: a rendered list holds a fact of an unknown player for a game of
\* the catalog next to a fact of a roster player for the same game.
C5_Witness ==
    /\ variant = "planner"
    /\ shown # <<>>
    /\ \E m, n \in 1..Len(entries) :
          /\ entries[m].gameId = entries[n].gameId
          /\ entries[m].gameId \in Range(games)
          /\ entries[m].playerId \notin Range(players)
          /\ entries[n].playerId \in Range(players)
    /\ \E n \in 1..Len(entries) : entries[n].gameId \notin Range(games)

C7_SetAvailabilityIdempotent ==
    (variant = "edit" /\ edited # <<>>) =>
        LET call == edited[1]
            once == entries
            twice == SetAvailability(once, call.playerId, call.gameId, call.available)
            present == \E i \in 1..Len(call.previousEntries) :
                          call.previousEntries[i] = Entry(call.playerId, call.gameId)
        IN /\ twice = once
           /\ (present <=> call.available) => once = call.previousEntries

\* C7 witness: a pair in the middle of a list of three has been set to absent.
C7_Witness ==
    /\ variant = "edit"
    /\ edited # <<>>
    /\ ~edited[1].available
    /\ Len(edited[1].previousEntries) = 3
    /\ entries = <<edited[1].previousEntries[1], edited[1].previousEntries[3]>>

\* C8: in every reachable state of the client the in-memory entries hold at
\* most one entry for any (playerId, gameId) pair.
C8_ClientEntriesHaveNoDuplicates == variant = "client" => NoDuplicates(entries)

\* C8 witness: a load failed and the client shows the local cache, whose item
\* held the same pair twice.
C8_Witness ==
    /\ variant = "client"
    /\ status = Status("error", "Supabase is unavailable. Showing last saved")
    /\ entries = <<Entry(1, 1)>>
    /\ ~isLoading

\* the statements of the write between BEGIN and the end of the handler
MidWrite == {"delete", "insert", "commit", "rollback"}

\* C9: the SQLite-backed replace is all-or-nothing: after a failed write the
\* transaction is closed and a read returns the prior rows, and a read during
\* the write (after the DELETE, before the end of the inserts) returns the
\* prior rows as well.
C9_SqliteReplaceAllOrNothing ==
    variant = "sqlite" =>
        /\ (request.pc = "done" /\ request.response = 500) =>
              /\ ~database.inTxn
              /\ SqlSelect(database) = request.prior
        /\ request.pc \in MidWrite => SqlSelect(database) = request.prior
        /\ (lastRead # <<>> /\ lastRead[1].pc \in MidWrite) =>
              lastRead[1].rows = lastRead[1].prior
        /\ (request.pc = "done" /\ request.response = 200) => ~database.inTxn

\* C9 witness: an INSERT failed after the DELETE and an earlier INSERT, the
\* handler answered 500, and a GET had read the table during the inserts.
C9_Witness ==
    /\ variant = "sqlite"
    /\ request.pc = "done"
    /\ request.response = 500
    /\ request.error = "INSERT"
    /\ Len(request.todo) = 1
    /\ request.prior = {Entry(2, 1)}
    /\ lastRead # <<>>
    /\ lastRead[1].pc = "insert"
    /\ lastRead[1].prior = request.prior

\* C10: saveAvailabilityToSupabase never resolves while the store of its skill
\* level lacks one of the entries it was given: when the DELETE succeeded and
\* the INSERT did not, the call rejects.
C10_SaveRejectsWhenInsertFails ==
    variant = "save" =>
        \A task \in DOMAIN saves :
            task.pc = "resolved" => Range(task.entries) \subseteq store[task.skillLevel]

\* C10 witness: the DELETE has cleared the level's rows, the INSERT failed and
\* the call has thrown "Supabase save failed".
C10_Witness ==
    /\ variant = "save"
    /\ \E task \in DOMAIN saves :
          /\ task.pc = "Supabase save failed"
          /\ task.entries # <<>>
          /\ store[task.skillLevel] = {}

\* C11: a save that failed after its DELETE had cleared the store (the INSERT
\* failed) is shown to the user with a status that differs from the one shown
\* for a failure that left the store as it was (no configuration, or the
\* DELETE failed).
StoreUntouchedFailures == {MissingConfiguration, "Supabase clear failed"}

C11_PartialFailureReportedDistinctly ==
    variant = "save" =>
        \A task \in DOMAIN saves :
            (task.pc = "Supabase save failed" /\ ~isSaving) =>
                \A other \in StoreUntouchedFailures :
                    status # StatusAfterSave(task, other, NoStatus)

\* the client is quiet: no load, no armed timer and no save is outstanding
Quiet ==
    /\ ~isLoading
    /\ loads = EmptyBag
    /\ timer = <<>>
    /\ saves = EmptyBag

\* C12: once the user has stopped editing and every save the client started
\* has completed successfully, the store's rows of the current skill level
\* are the client's in-memory entries.
C12_AutoSaveConvergesToLatestEntries ==
    (/\ variant = "client"
     /\ history # NoHistory
     /\ supabaseConfigured
     /\ Quiet) =>
        (~history[1].saveFailed => store[skillLevel] = Range(entries))

\* C13: at no time are two saves of the client in flight together.
C13_AtMostOneSaveInFlight ==
    variant = "client" => BagCardinality(saves) <= 1

\* C14: a save whose timer was armed by the render after a failed load (its
\* entries are the local cache's, no edit was made) never gets its DELETE
\* run by the shared store.
C14_CachedEntriesNeverWritten ==
    variant = "client" =>
        \A task \in DOMAIN saves : task.cause = "cache" => task.pc # "insert"

\* C15: when a read succeeds, its result is written back and the write
\* succeeds too, the store holds what it held before the read: for
\* loadAvailabilityFromSupabase / saveAvailabilityToSupabase every skill
\* level's rows, for GET / PUT of the SQLite backends the table's rows.
C15_RoundTripLeavesStoreUnchanged ==
    variant = "roundtrip" =>
        \A i \in 1..Len(lastRead) :
            LET read == lastRead[i]
            IN /\ (/\ read.from = "supabase"
                   /\ \E task \in DOMAIN saves : task.pc = "resolved")
                      => store = read.prior
               /\ (/\ read.from = "sqlite"
                   /\ request.pc = "done"
                   /\ request.response = 200)
                      => database = Database(read.prior, read.prior, FALSE)

\* C15 witness: both round trips have succeeded on stores that hold rows
C15_Witness ==
    /\ variant = "roundtrip"
    /\ \E task \in DOMAIN saves : task.pc = "resolved" /\ Len(task.entries) = 2
    /\ request.pc = "done"
    /\ request.response = 200
    /\ Cardinality(database.committed) = 2
    /\ Len(lastRead) = 2

\* a field that can be represented as a positive integer: a positive integer,
\* its numeric string, or true
IsPositiveInteger(x) == x.t \in {"int", "str", "bool"} /\ x.v > 0

\* a valid entry: an object whose two fields are both present and positive integers
IsValidItem(item) ==
    item.obj /\ IsPositiveInteger(item.playerId) /\ IsPositiveInteger(item.gameId)

\* the pairs of the valid entries of a list
ValidPairs(items) ==
    {Entry(items[i].playerId.v, items[i].gameId.v) :
        i \in {j \in 1..Len(items) : IsValidItem(items[j])}}

\* C16: the client's and the server's normalizeEntries drop an invalid entry
\* (no object, a missing field, a non-integer or non-positive field) without
\* failing and keep every valid entry of the list: the result holds exactly
\* the pairs of the valid entries; for the list of Scenario D it is [(1,2)].
C16_InvalidEntriesDroppedSilently ==
    (appResult.status = "ok" /\ rawInput.array) =>
        LET valid == ValidPairs(rawInput.items)
        IN /\ Range(appResult.entries) = valid
           /\ Cardinality(valid) <= EntryCap =>
                 /\ serverResult.status = "ok"
                 /\ Range(serverResult.entries) = valid
           /\ rawInput = ScenarioD =>
                 /\ appResult.entries = <<Entry(1, 2)>>
                 /\ serverResult = Ok(<<Entry(1, 2)>>)

\* C16 witness: the list of Scenario D has been normalized
C16_Witness ==
    /\ rawInput = ScenarioD
    /\ appResult.status = "ok"
    /\ serverResult.status = "ok"

\* the pairs of the entries the vite plugin takes for valid: both fields are
\* positive integers as numbers
PluginValidPairs(items) ==
    {Entry(items[i].playerId.v, items[i].gameId.v) :
        i \in {j \in 1..Len(items) :
                  /\ items[j].obj
                  /\ RawIsInteger(items[j].playerId) /\ items[j].playerId.v > 0
                  /\ RawIsInteger(items[j].gameId) /\ items[j].gameId.v > 0}}

\* C17: normalizeEntries of the two SQLite backends fails with the too-large
\* error exactly when the normalized (valid, deduplicated) entries are more
\* than the cap.
C17_CapOnNormalizedEntries ==
    (serverResult.status # "pending" /\ rawInput.array) =>
        /\ serverResult.status = "error"
              <=> Cardinality(ValidPairs(rawInput.items)) > EntryCap
        /\ pluginResult.status = "error"
              <=> Cardinality(PluginValidPairs(rawInput.items)) > EntryCap

\* the errors normalizeEntries throws, and the errors of a payload that fails
\* validation
NormalizeErrors == {"entries must be an array", "Too many entries in one request"}
ValidationErrors == NormalizeErrors \cup {MalformedJson}

\* the statements whose failure is a failure of the storage backend
StorageErrors == {"BEGIN", "DELETE", "INSERT", "COMMIT", "ROLLBACK"}

\* C18: a PUT whose payload fails validation (entries no array, malformed
\* JSON, too many entries) is answered with a 4xx status and an error
\* message; a failure of the storage backend is answered with a 5xx status.
C18_ValidationAnswered400 ==
    (variant = "sqlite" /\ request.pc = "done") =>
        /\ request.error \in ValidationErrors => request.response \in 400..499
        /\ request.error \in StorageErrors => request.response \in 500..599

\* C19: a PUT that normalizeEntries rejected (entries no array, or over the
\* cap) runs no statement: it is answered at once, and the table holds the
\* rows it held before the request, with no transaction open.
C19_RejectedPutLeavesStore ==
    (variant = "sqlite" /\ request.error \in NormalizeErrors) =>
        /\ request.pc = "done"
        /\ database = Database(request.prior, request.prior, FALSE)

\* C19 witness: a payload over the cap was rejected while the table held rows
C19_Witness ==
    /\ variant = "sqlite"
    /\ request.pc = "done"
    /\ request.error = "Too many entries in one request"
    /\ request.backend = "server"
    /\ Cardinality(database.committed) = 2

\* C20: after a successful PUT the file backend's stored entries are
\* normalized: no (playerId, gameId) pair twice, every id a positive integer.
C20_StoredEntriesAreNormalized ==
    (variant = "file" /\ request.pc = "done" /\ request.response = 200) =>
        /\ file.readable
        /\ IsNormalized(file.entries)

\* C30: the vite plugin's and the standalone server's normalizeEntries agree
\* on every input: both fail, or both return the same set of pairs.
C30_SqliteNormalizersAgree ==
    serverResult.status # "pending" =>
        /\ pluginResult.status = serverResult.status
        /\ Range(pluginResult.entries) = Range(serverResult.entries)

\* C22: useGameSummaries returns one summary for every game of the catalog,
\* in catalog order; a game no entry refers to has count 0 and no players, and
\* count is always the length of the player list.
C22_OneSummaryPerCatalogEvent ==
    (variant = "planner" /\ shown # <<>>) =>
        LET summaries == shown[1].gameSummaries
        IN /\ Len(summaries) = Len(games)
           /\ \A i \in 1..Len(games) :
                 /\ summaries[i].game = games[i]
                 /\ summaries[i].count = Len(summaries[i].availablePlayers)
                 /\ (\A k \in 1..Len(entries) : entries[k].gameId # games[i])
                       => /\ summaries[i].count = 0
                          /\ summaries[i].availablePlayers = <<>>

\* a render with a game that has attendance and a game no entry refers to
C22_Witness ==
    /\ variant = "planner"
    /\ shown # <<>>
    /\ \E i, j \in 1..Len(games) :
          /\ shown[1].gameSummaries[i].count > 0
          /\ \A k \in 1..Len(entries) : entries[k].gameId # games[j]
          /\ shown[1].gameSummaries[j].count = 0

\* ------------------------- useGameSummaries on reordered entries lists
\* the entries handed to useGameSummaries: any list, repeated entries included;
\* 14 is a player of "3.5" only
SummarizeFacts == {Entry(p, g) : p \in {1, 14}, g \in {1, 2}}
SummarizeLists == SeqsUpTo(SummarizeFacts, MaxEntries)

InitSummarize ==
    /\ variant = "summarize"
    /\ skillLevel \in SkillLevels
    /\ entries \in SummarizeLists
    /\ shown = <<>>
    /\ NormIdle
    /\ SchedIdle
    /\ ClientIdle
    /\ SqliteIdle
    /\ EditIdle
    /\ FileIdle
    /\ HistoryIdle

\* a call of useGameSummaries, once for each of the two orders
Summarize ==
    /\ variant = "summarize"
    /\ Len(shown) < 2
    /\ \A i \in 1..Len(shown) : shown[i].of # entries
    /\ shown' = Append(shown, [gameSummaries |-> UseGameSummaries(players, games, entries),
                               of |-> entries])
    /\ UNCHANGED <<skillLevel, entries, normVars, variant, schedVars, clientVars, sqliteVars,
                   editVars, fileVars, historyVars>>

\* the same entries in another order
Reorder ==
    /\ variant = "summarize"
    /\ Len(shown) = 1
    /\ entries = shown[1].of
    /\ \E order \in Permutations(1..Len(entries)) :
          /\ entries' = [i \in 1..Len(entries) |-> entries[order[i]]]
          /\ entries' # entries
    /\ UNCHANGED <<skillLevel, shown, normVars, variant, schedVars, clientVars, sqliteVars,
                   editVars, fileVars, historyVars>>

NextSummarize == Summarize \/ Reorder

SpecSummarize == InitSummarize /\ [][NextSummarize]_vars

\* C23: useGameSummaries does not depend on the order of the entries: for two
\* orders of the same entries (repeats included) every game has the same count
\* and the same set of available players.
C23_SummariesOrderIndependent ==
    (variant = "summarize" /\ Len(shown) = 2) =>
        \A i \in 1..Len(games) :
            /\ shown[1].gameSummaries[i].count = shown[2].gameSummaries[i].count
            /\ Range(shown[1].gameSummaries[i].availablePlayers)
                  = Range(shown[2].gameSummaries[i].availablePlayers)

\* two orders of a list with a repeated entry in which the repeats are apart
\* in one order and together in the other, summarized with attendance
C23_Witness ==
    /\ variant = "summarize"
    /\ Len(shown) = 2
    /\ shown[1].of # shown[2].of
    /\ Len(shown[1].of) = 3
    /\ shown[1].of[1] = shown[1].of[3]
    /\ shown[2].of[1] = shown[2].of[2]
    /\ \E i \in 1..Len(games) : shown[2].gameSummaries[i].count = 2

\* whether the pair (p, g) has an entry in es
Present(es, p, g) == \E i \in 1..Len(es) : es[i] = Entry(p, g)

\* C24: setAvailability(p, g, available) on a duplicate-free list returns a
\* list in which (p, g) is present exactly when available is true, and in
\* which every other pair is present exactly when it was present before.
C24_SetAvailabilityChangesOnePair ==
    (variant = "edit" /\ edited # <<>> /\ NoDuplicates(edited[1].previousEntries)) =>
        LET call == edited[1]
        IN /\ Present(entries, call.playerId, call.gameId) <=> call.available
           /\ \A p \in PlannerPlayerIds, g \in PlannerGameIds :
                 <<p, g>> # <<call.playerId, call.gameId>> =>
                     (Present(entries, p, g) <=> Present(call.previousEntries, p, g))

\* C24 witness: the first of three entries has been set to absent and the
\* other two are still there.
C24_Witness ==
    /\ variant = "edit"
    /\ edited # <<>>
    /\ ~edited[1].available
    /\ Len(edited[1].previousEntries) = 3
    /\ NoDuplicates(edited[1].previousEntries)
    /\ edited[1].previousEntries[1] = Entry(edited[1].playerId, edited[1].gameId)
    /\ Len(entries) = 2

\* a step of one call saveAvailabilityToSupabase(L, entries): the rows of every
\* other skill level stay as they are, and when the call has resolved the rows
\* of L are the set of the entries
SaveStepKeepsLevelsApart ==
    variant = "save" =>
        \A task \in DOMAIN saves' :
            /\ \A l \in SkillLevels \ {task.skillLevel} : store'[l] = store[l]
            /\ task.pc = "resolved" => store'[task.skillLevel] = Range(task.entries)

\* C26: a saveAvailabilityToSupabase(L, entries) that succeeds makes the
\* stored facts of skill level L the set of the entries (none when entries is
\* empty) and leaves every other level's facts unchanged; one that fails
\* leaves every other level's facts unchanged too.
C26_SaveReplacesOneLevelOnly == [][SaveStepKeepsLevelsApart]_vars

\* C26 witness: a call with entries has resolved, its level holds exactly
\* these entries, and the other level still holds a row.
C26_Witness ==
    /\ variant = "save"
    /\ \E task \in DOMAIN saves :
          /\ task.pc = "resolved"
          /\ task.entries # <<>>
          /\ store[task.skillLevel] = Range(task.entries)
          /\ \E l \in SkillLevels \ {task.skillLevel} : store[l] # {}

\* the step handles the response of a load that was started for a skill
\* level the user has left since
StaleLoadResponds ==
    \E task \in DOMAIN loads :
        /\ task.aborted
        /\ task.skillLevel # skillLevel
        /\ loads' = RemoveTask(loads, task)

\* a stale response leaves the displayed entries alone and arms no auto-save
StaleLoadIsIgnored ==
    (variant = "client" /\ StaleLoadResponds) =>
        /\ entries' = entries
        /\ timer' # timer => timer' = <<>>

\* C25: availability stays separated by skill level under races: the response
\* of a load for a skill level selected earlier, arriving after the user has
\* switched, never replaces the displayed entries and is never handed to a
\* save under the new level.
C25_StaleLoadNeverReplacesEntries == [][StaleLoadIsIgnored]_vars

\* a load of the current skill level has not answered yet
LoadInProgress ==
    \/ isLoading
    \/ ~hasLoadedAvailability
    \/ \E task \in DOMAIN loads : ~task.aborted /\ task.skillLevel = skillLevel

\* the step sends the first request of a save: the timer's callback or saveNow
\* has called saveAvailabilityToSupabase
SaveIsStarted == BagCardinality(saves') > BagCardinality(saves)

\* a save starts only once the load of the current skill level has finished,
\* and it carries that level and the entries displayed since
SaveStartsAfterLoad ==
    (variant = "client" /\ SaveIsStarted) =>
        /\ ~LoadInProgress
        /\ \E task \in DOMAIN saves' :
              /\ CountIn(saves', task) > CountIn(saves, task)
              /\ task.skillLevel = skillLevel
              /\ task.entries = entries

\* C27: no save is started while a load for the current skill level is in
\* progress: neither the auto-save timer nor saveNow sends a backend write
\* before that load has finished, so the entries held before the load (the
\* initial empty list, the previous level's entries) are never written.
C27_NoSaveWhileLoading == [][SaveStartsAfterLoad]_vars

\* C27 witness: the user has switched to "3.0", its load has finished, and a
\* save for "3.0" is in flight while the load of a left level is still
\* unanswered.
C27_Witness ==
    /\ variant = "client"
    /\ skillLevel = "3.0"
    /\ ~LoadInProgress
    /\ loads # EmptyBag
    /\ \E task \in DOMAIN saves : task.skillLevel = "3.0" /\ ~task.cancelled

\* --------------------------------- the client of a user who does not edit
\* the first load has succeeded (InitAutoSave); the user switches levels and
\* presses Save now, and never changes a cell
NextUnedited ==
    \/ SetSkillLevel
    \/ LoadSucceeds
    \/ LoadFails
    \/ TimerFires
    \/ SaveNow
    \/ SaveDeleteResponds
    \/ SaveInsertResponds

SpecUnedited == InitAutoSave /\ [][NextUnedited]_vars

\* C28: when the user makes no edit after a successful load the client never
\* changes the shared store: in every later state, also after failed backend
\* requests, the facts stored for the loaded skill level are the set that was
\* loaded.
C28_UneditedClientLeavesStore ==
    variant = "client" => \E st \in InitialStores : store["3.5"] = st["3.5"]

\* the step handles the failure of a load that was not aborted, on a build
\* without configuration (where every load fails): the entries become the
\* normalized local cache of the load's skill level and the status an error
FailedLoadIsSurfaced ==
    \A task \in DOMAIN loads :
        (~supabaseConfigured /\ ~task.aborted /\ loads' = RemoveTask(loads, task)) =>
            /\ entries' = NormalizeEntriesApp(
                              IF localStorage[task.skillLevel].present
                                 /\ localStorage[task.skillLevel].parses
                              THEN localStorage[task.skillLevel].value
                              ELSE NotAnArray)
            /\ status'.type = "error"

\* the step handles a save that failed (the first one of the run): the status
\* becomes an error
FailedSaveIsSurfaced ==
    (~history[1].saveFailed /\ history'[1].saveFailed) => status'.type = "error"

\* C21: a backend failure is always surfaced to the user: after a failed load
\* the entries are the normalized local cache of that skill level and the
\* status is an error, and after every failed save the status becomes an
\* error.
C21_BackendFailureSurfaced ==
    [][(variant = "client" /\ history # NoHistory) =>
           (FailedLoadIsSurfaced /\ FailedSaveIsSurfaced)]_vars

\* ----------------------------------- the client with its scheduling kept
\* the browser runs an armed timeout after its delay, and every request is
\* answered or fails in the end
FairClient ==
    /\ WF_vars(TimerFires)
    /\ WF_vars(LoadSucceeds \/ LoadFails)
    /\ WF_vars(SaveDeleteResponds)
    /\ WF_vars(SaveInsertResponds)

SpecLive == InitAutoSave /\ [][NextClient]_vars /\ FairClient

\* the timeouts an availability change arms
EditTimers ==
    {[skillLevel |-> level, entries |-> es, cause |-> "edit"] :
        level \in SkillLevels,
        es \in {s \in SeqsUpTo({Entry(p, g) : p \in EditedPlayerIds, g \in EditedGameIds}
                                 \cup {Entry(1, 1)}, MaxLen) : NoDuplicates(s)}}

\* a save of the change's entries under its skill level has been started
SaveAttempted(change) ==
    \E task \in DOMAIN saves :
        /\ task.skillLevel = change.skillLevel
        /\ task.entries = change.entries
        /\ ~task.cancelled

\* the user has edited again within the quiet period: the later change's
\* timeout has taken the place of this one
EditedAgain(change) ==
    /\ timer # <<>>
    /\ timer[1].cause = "edit"
    /\ timer[1] # change

\* C29: every availability change made with setAvailability is followed in
\* the end by a save attempt whose entries hold the change (or by a later
\* change that is), also when the user switches the skill level or edits
\* again within the 300 ms quiet period.
C29_EveryChangeIsSaved ==
    \A change \in EditTimers :
        (timer = <<change>>) ~> (SaveAttempted(change) \/ EditedAgain(change))

====
